---------------------------- MODULE Spec2Model ----------------------------
(***************************************************************************)
(* Model of the Layout class of src/src/Layout/Layout.py: the construction *)
(* phases import_nodes, import_edges, check_imports, enhance_imports,      *)
(* create_runway_data and create_pushpull_data.                            *)
(*                                                                         *)
(* Each phase has a specification of its own (SpecNodes, SpecEdges, ...)   *)
(* whose initial states are the inputs the phase can be started with; the  *)
(* variables a phase does not touch keep the value Idle.                   *)
(*                                                                         *)
(* Conventions:                                                            *)
(*   - an SVG identifier "intersection_node_<k>" is the pair               *)
(*     <<"intersection_node", k>>; a bound attribute that names no node is *)
(*     <<"none", 0>>;                                                      *)
(*   - Python's None (an open edge endpoint) is the value None, which is   *)
(*     no node id;                                                         *)
(*   - a dict is a function, d[k] = v is (k :> v) @@ d;                    *)
(*   - coordinates are fixed-point numbers in tenths of a drawing unit,    *)
(*     distances are in millimetres, headings are whole degrees.           *)
(***************************************************************************)
EXTENDS Integers, Sequences, FiniteSets, TLC

VARIABLES
    pc,                         \* position of the running phase
    svg_nodes,                  \* <g> node elements of the document
    node_iter,                  \* elements the running loop of import_nodes has yet to visit
    nodes_dict,                 \* self.nodes_dict
    node_count_intersections,   \* self.node_count_intersections
    svg_paths,                  \* <path id="edge_*"> elements the loop of import_edges has yet to read
    edges_dict_unsorted,        \* import_edges: local edges_dict_unsorted
    edge_ids4sort,              \* import_edges: local edge_ids4sort
    edges_dict,                 \* self.edges_dict
    svgID_to_edgeID_dict,       \* self.svgID_to_edgeID_dict
    nodes_to_check,             \* check_imports: local nodes_to_check
    None_nodes,                 \* self.None_nodes
    ramp2node_dict,             \* self.ramp2node_dict
    ramp_dict,                  \* self.ramp_dict
    ramp_edges_set,             \* self.ramp_edges_set
    svgEdges_pushback_dict,     \* self._svgEdges_pushback_dict
    svgEdges_pull_dict,         \* self._svgEdges_pull_dict
    edges_pushback_dict,        \* create_pushpull_data: local edges_pushback_dict
    edges_pull_dict,            \* create_pushpull_data: local edges_pull_dict
    ramp_iter,                  \* ramp ids the running loop over the ramps has yet to finish
    stype_iter,                 \* categories the running loop over sType has yet to finish
    pb_path_lst,                \* create_pushpull_data: local pb_path_lst
    pull_path_lst,              \* create_pushpull_data: local pull_path_lst
    last_node,                  \* create_pushpull_data: local last_node of the pull loop
    push_groups,                \* create_pushpull_data: local push_groups
    pull_groups,                \* create_pushpull_data: local pull_groups
    runways_dict,               \* self.runways_dict
    edges_special_RWY,          \* create_runway_data: local edges_special_RWY
    strip_iter,                 \* runway strips the loop of line 873 has yet to finish
    dir_idx,                    \* idx of the loop of line 888, counted from 1; 0 outside it
    stopbars_io,                \* create_runway_data: local stopbars_io
    edge_ids_exits,             \* create_runway_data: local edge_ids_exits
    edge_ids_entries,           \* create_runway_data: local edge_ids_entries
    edge_now,                   \* create_runway_data: local edge_now
    next_iter,                  \* edges of next_edges the loop of line 909 has yet to visit
    rwy_nodes,                  \* create_runway_data: local rwy_nodes (the list of line 898)
    rwy_edges,                  \* create_runway_data: local rwy_edges (the list of line 899)
    rwy_length,                 \* create_runway_data: local rwy_length
    rwy_exitEdges,              \* create_runway_data: local rwy_exitEdges
    rwy_rev_entryEdges,         \* create_runway_data: local rwy_rev_entryEdges
    stopbars_exits,             \* create_runway_data: local stopbars_exits
    exit_edge,                  \* the edge_id of line 909 an exit is searched for
    exit_path,                  \* create_runway_data: local exit_path
    stopbar_nodeIDs,            \* create_runway_data: local stopbar_nodeIDs
    stopbar_names,              \* create_runway_data: local stopbar_names
    is_RET,                     \* create_runway_data: local is_RET
    temp_edges,                 \* create_runway_data: local temp_edges
    stopbars_remaining,         \* create_runway_data: local stopbars_remaining
    seed_kind,                  \* which of the three searches of lines 974-1030 runs
    seed_iter,                  \* seed edges the loop of line 979, 999 or 1018 has yet to visit
    eids_to_check,              \* create_runway_data: local eids_to_check
    node_ids,                   \* locals node_ids_crossing, node_ids_ahead, node_ids_behind
    edge_ids,                   \* locals edge_ids_crossing, edge_ids_ahead, edge_ids_behind
    svgEdges_entries_dict,      \* self._svgEdges_entries_dict
    remhold_dict,               \* self.remhold_dict
    edge_warnings,              \* the warnings line 434 has printed: <<edge_id, svg id>>
    name2node_dict,             \* self.name2node_dict
    kind2node_dict,             \* self.rwy2node_dict, self.remhold2node_dict, ... by kind
    name_iter,                  \* named elements the passes of lines 158-305 have yet to read
    nx_graph                    \* self.nx_graph

nodeVars == <<svg_nodes, node_iter, nodes_dict, node_count_intersections>>
edgeVars == <<svg_paths, edges_dict_unsorted, edge_ids4sort, edges_dict,
              svgID_to_edgeID_dict>>
checkVars == <<nodes_to_check, None_nodes>>
rampVars == <<ramp2node_dict, ramp_dict, ramp_edges_set>>
bucketVars == <<svgEdges_pushback_dict, svgEdges_pull_dict>>
chainVars == <<edges_pushback_dict, edges_pull_dict, ramp_iter, stype_iter,
               pb_path_lst, pull_path_lst, last_node, push_groups, pull_groups>>
pushVars == <<bucketVars, chainVars>>
stripVars == <<runways_dict, edges_special_RWY, strip_iter, dir_idx, stopbars_io,
               edge_ids_exits, edge_ids_entries>>
walkVars == <<edge_now, next_iter, rwy_nodes, rwy_edges, rwy_length, rwy_exitEdges,
              rwy_rev_entryEdges, stopbars_exits>>
exitVars == <<exit_edge, exit_path, stopbar_nodeIDs, stopbar_names, is_RET, temp_edges>>
seedVars == <<stopbars_remaining, seed_kind, seed_iter, eids_to_check, node_ids, edge_ids>>
rwyVars == <<stripVars, walkVars, exitVars, seedVars>>
indexVars == <<svgEdges_entries_dict, remhold_dict, edge_warnings, name2node_dict,
               kind2node_dict, name_iter, nx_graph>>
laterVars == <<pushVars, rwyVars, indexVars>>
vars == <<pc, nodeVars, edgeVars, checkVars, rampVars, laterVars>>

\* Value of a variable that the running phase does not use.
Idle == <<>>

\* Python's None as an edge endpoint, and as a node that is not set.
None == -100

\* The variables of the phases after enhance_imports, before those phases run.
PushIdle ==
    /\ svgEdges_pushback_dict = Idle
    /\ svgEdges_pull_dict = Idle
    /\ edges_pushback_dict = Idle
    /\ edges_pull_dict = Idle
    /\ ramp_iter = Idle
    /\ stype_iter = Idle
    /\ pb_path_lst = Idle
    /\ pull_path_lst = Idle
    /\ last_node = None
    /\ push_groups = Idle
    /\ pull_groups = Idle

\* No edge: Python's None where an edge id is expected.
NoEdge == <<None, None>>

RunwayIdle ==
    /\ runways_dict = Idle
    /\ edges_special_RWY = Idle
    /\ strip_iter = <<>>
    /\ dir_idx = 0
    /\ stopbars_io = {}
    /\ edge_ids_exits = {}
    /\ edge_ids_entries = {}
    /\ edge_now = NoEdge
    /\ next_iter = {}
    /\ rwy_nodes = <<>>
    /\ rwy_edges = <<>>
    /\ rwy_length = 0
    /\ rwy_exitEdges = Idle
    /\ rwy_rev_entryEdges = Idle
    /\ stopbars_exits = Idle
    /\ exit_edge = NoEdge
    /\ exit_path = <<>>
    /\ stopbar_nodeIDs = <<>>
    /\ stopbar_names = <<>>
    /\ is_RET = FALSE
    /\ temp_edges = {}
    /\ stopbars_remaining = {}
    /\ seed_kind = "none"
    /\ seed_iter = {}
    /\ eids_to_check = {}
    /\ node_ids = Idle
    /\ edge_ids = Idle

IndexIdle ==
    /\ svgEdges_entries_dict = Idle
    /\ remhold_dict = Idle
    /\ edge_warnings = {}
    /\ name2node_dict = Idle
    /\ kind2node_dict = Idle
    /\ name_iter = <<>>
    /\ nx_graph = Idle

LaterIdle == PushIdle /\ RunwayIdle /\ IndexIdle

\* math.inf
Inf == 1000000

EmptyDict == <<>>

---------------------------------------------------------------------------
(* Bounds of the model.                                                    *)

\* Largest <int> of an intersection_node_<int> / termination_node_<int> id.
MaxSvgIdx == 2

\* Largest number of edge_* path elements in a document.
MaxPaths == 2

---------------------------------------------------------------------------
(* import_nodes: intersection and termination nodes (Layout.py 118-146).   *)

\* The x/y attributes of a node element, in tenths of a drawing unit.
SvgPos(kind, k) ==
    IF kind = "intersection_node" THEN <<1000 + 100 * k, 500>>
                                  ELSE <<1000 + 100 * k, 900>>

NodeElement(kind, k) == [id |-> <<kind, k>>, pos |-> SvgPos(kind, k)]

\* The node elements of a document with intersection indices I and
\* termination indices T.
NodeDocument(I, T) ==
    {NodeElement("intersection_node", k) : k \in I}
        \cup {NodeElement("termination_node", k) : k \in T}

NewNode(child, type) ==
    [svg_id          |-> child.id,
     node_type       |-> type,
     node_name       |-> "None",
     pos_xy          |-> child.pos,
     neighbors       |-> {},
     edges_to_node   |-> {},
     edges_from_node |-> {}]

\* node_id of a termination element (lines 135-136).
TerminationNodeId(k, count) == k + count

\* First loop, one element: lines 120-130.
ImportIntersection ==
    /\ pc = "intersections"
    /\ \E child \in node_iter :
        /\ child.id[1] = "intersection_node"
        /\ nodes_dict' = (child.id[2] :> NewNode(child, "TWY_intersection")) @@ nodes_dict
        /\ node_iter' = node_iter \ {child}
    /\ UNCHANGED <<laterVars, pc, svg_nodes, node_count_intersections, edgeVars, checkVars, rampVars>>

\* Line 132, once the first loop has read every intersection element.
CountIntersections ==
    /\ pc = "intersections"
    /\ \A child \in node_iter : child.id[1] # "intersection_node"
    /\ node_count_intersections' = Cardinality(DOMAIN nodes_dict)
    /\ pc' = "terminations"
    /\ UNCHANGED <<laterVars, svg_nodes, node_iter, nodes_dict, edgeVars, checkVars, rampVars>>

\* Second loop, one element: lines 133-144.
ImportTermination ==
    /\ pc = "terminations"
    /\ \E child \in node_iter :
        /\ child.id[1] = "termination_node"
        /\ LET node_id == TerminationNodeId(child.id[2], node_count_intersections)
           IN  nodes_dict' = (node_id :> NewNode(child, "Termination_node")) @@ nodes_dict
        /\ node_iter' = node_iter \ {child}
    /\ UNCHANGED <<laterVars, pc, svg_nodes, node_count_intersections, edgeVars, checkVars, rampVars>>

\* Both loops are over: the registry is complete (line 146).
FinishNodes ==
    /\ pc = "terminations"
    /\ node_iter = {}
    /\ pc' = "nodes_done"
    /\ UNCHANGED <<laterVars, nodeVars, edgeVars, checkVars, rampVars>>

InitNodes ==
    /\ LaterIdle
    /\ pc = "intersections"
    /\ \E I \in SUBSET (0..MaxSvgIdx), T \in SUBSET (0..MaxSvgIdx) :
          svg_nodes = NodeDocument(I, T)
    /\ node_iter = svg_nodes
    /\ nodes_dict = EmptyDict
    /\ node_count_intersections = 0
    /\ svg_paths = Idle
    /\ edges_dict_unsorted = Idle
    /\ edge_ids4sort = Idle
    /\ edges_dict = Idle
    /\ svgID_to_edgeID_dict = Idle
    /\ nodes_to_check = Idle
    /\ None_nodes = Idle
    /\ ramp2node_dict = Idle
    /\ ramp_dict = Idle
    /\ ramp_edges_set = Idle

NextNodes ==
    \/ ImportIntersection
    \/ CountIntersections
    \/ ImportTermination
    \/ FinishNodes

SpecNodes == InitNodes /\ [][NextNodes]_vars

\* C2: after import_nodes the registry holds one distinct entry per source
\* element: no termination node took the integer id of an intersection node
\* (or of another element), whatever the <int> indices of the document are.
C2_OneEntryPerElement ==
    pc = "nodes_done" =>
        /\ Cardinality(DOMAIN nodes_dict) = Cardinality(svg_nodes)
        /\ \A child \in svg_nodes :
              \E n \in DOMAIN nodes_dict : nodes_dict[n].svg_id = child.id

---------------------------------------------------------------------------
(* import_edges (Layout.py 395-685).                                       *)

\* The embedded names (attribute edgeNameFromXPlane) of the documents of
\* SpecEdges, SpecEnhance and SpecRunway.
SvgNames == {"Linear Feature", "A_TUD", "serviceroad_TUD",
             "center_serviceroad_TUD", "G1_stand_TUD",
             "crossing_09/27_TUD", "ahead_09_TUD", "ahead_27_TUD"}

\* svg_name.lower().find(sub) >= 0, for the substrings import_edges looks for.
SvgNameHas(svg_name, sub) ==
    sub \in (CASE svg_name = "Linear Feature"         -> {"Linear Feature"}
               [] svg_name = "A_TUD"                  -> {"TUD"}
               [] svg_name = "serviceroad_TUD"        -> {"TUD", "serviceroad"}
               [] svg_name = "center_serviceroad_TUD" -> {"TUD", "serviceroad", "center_serviceroad"}
               [] svg_name = "G1_stand_TUD"           -> {"TUD", "stand"}
               [] svg_name = "crossing_09/27_TUD"     -> {"TUD"}
               [] svg_name = "ahead_09_TUD"           -> {"TUD"}
               [] svg_name = "ahead_27_TUD"           -> {"TUD"}
               [] svg_name = "G1_pb_TUD"              -> {"TUD", "pb"}
               [] svg_name = "pull_G1_TUD"            -> {"TUD", "pull"}
               [] svg_name = "G1_entry_TUD"           -> {"TUD", "entry"}
               [] svg_name = "RH1_entry_exit_TUD"     -> {"TUD", "entry", "entry_exit"}
               [] OTHER                               -> {})

\* svg_name.split('_TUD')[0]
BeforeTUD(svg_name) ==
    CASE svg_name = "A_TUD"                  -> "A"
      [] svg_name = "serviceroad_TUD"        -> "serviceroad"
      [] svg_name = "center_serviceroad_TUD" -> "center_serviceroad"
      [] svg_name = "G1_stand_TUD"           -> "G1_stand"
      [] svg_name = "crossing_09/27_TUD"     -> "crossing_09/27"
      [] svg_name = "ahead_09_TUD"           -> "ahead_09"
      [] svg_name = "ahead_27_TUD"           -> "ahead_27"
      [] svg_name = "G1_pb_TUD"              -> "G1_pb"
      [] svg_name = "pull_G1_TUD"            -> "pull_G1"
      [] svg_name = "G1_entry_TUD"           -> "G1_entry"
      [] svg_name = "RH1_entry_exit_TUD"     -> "RH1_entry_exit"
      [] OTHER                               -> svg_name

\* svg_name.split('_')[0]
FirstToken(svg_name) ==
    CASE svg_name = "A_TUD"                  -> "A"
      [] svg_name = "serviceroad_TUD"        -> "serviceroad"
      [] svg_name = "center_serviceroad_TUD" -> "center"
      [] svg_name = "G1_stand_TUD"           -> "G1"
      [] svg_name = "crossing_09/27_TUD"     -> "crossing"
      [] svg_name = "ahead_09_TUD"           -> "ahead"
      [] svg_name = "ahead_27_TUD"           -> "ahead"
      [] svg_name = "G1_pb_TUD"              -> "G1"
      [] svg_name = "pull_G1_TUD"            -> "pull"
      [] svg_name = "G1_entry_TUD"           -> "G1"
      [] svg_name = "RH1_entry_exit_TUD"     -> "RH1"
      [] OTHER                               -> svg_name

\* edge_type and edge_name of a path element: lines 449-463, 474-477, 523-530
\* and 531-533.  No name of the documents holds maxspan or TWY ("pb" stands
\* for the test find('pb') > 0 of line 474).
DecodeName(svg_name, type) ==
    IF (SvgNameHas(svg_name, "TUD") \/ type = "service")
         /\ ~SvgNameHas(svg_name, "Linear Feature")
    THEN LET name0 == IF SvgNameHas(svg_name, "TUD") THEN BeforeTUD(svg_name) ELSE "None"
             type1 == IF SvgNameHas(svg_name, "serviceroad") THEN "ServiceRoad" ELSE "TWY_edge"
             name1 == IF SvgNameHas(svg_name, "serviceroad") THEN "None" ELSE name0
         IN  IF SvgNameHas(svg_name, "entry")
             THEN [edge_type |-> "entry_placeholder", edge_name |-> "None"]
             ELSE IF SvgNameHas(svg_name, "pb") \/ SvgNameHas(svg_name, "pull")
             THEN [edge_type |-> "PB/PUSH-PULL_placeholder", edge_name |-> "None"]
             ELSE IF SvgNameHas(svg_name, "center_serviceroad")
             THEN [edge_type |-> "CenterServiceRoad", edge_name |-> "None"]
             ELSE IF SvgNameHas(svg_name, "stand")
             THEN [edge_type |-> "Stand", edge_name |-> FirstToken(svg_name)]
             ELSE [edge_type |-> type1, edge_name |-> name1]
    ELSE [edge_type |-> "TWY_edge", edge_name |-> "None"]

\* node_start / node_end of a bound attribute: lines 409-429.
NodeOfBound(bound, count) ==
    IF bound[1] = "intersection_node" THEN bound[2]
    ELSE IF bound[1] = "termination_node" THEN bound[2] + count
    ELSE None

\* node_start4sort / node_end4sort: lines 412-418 and 423-429.
Node4Sort(node) == IF node = None THEN -1 ELSE node

\* list.reverse()
Reverse(s) == [i \in 1..Len(s) |-> s[Len(s) + 1 - i]]

\* A segment of a parsed path: its type letter, its raw length, the heading
\* of its tangent at its start and at its end, and the curvature radii
\* sampled along it.  Line and Curve are the shapes the documents use.
Line(h) == [type |-> "L", raw_length |-> 1, heading_start |-> h, heading_end |-> h,
            r_min |-> Inf, r_max |-> Inf, r_med |-> Inf, r_mid |-> Inf]

Curve(h1, h2) == [type |-> "C", raw_length |-> 2, heading_start |-> h1, heading_end |-> h2,
                  r_min |-> 12, r_max |-> 30, r_med |-> 18, r_mid |-> 20]

\* path.reversed() (line 630): the segments in reverse order, each one run
\* the other way, so that its tangents point the opposite way.
ReversedSegment(seg) ==
    [seg EXCEPT !.heading_start = (seg.heading_end + 180) % 360,
                !.heading_end   = (seg.heading_start + 180) % 360]

PathReversed(path) == [i \in 1..Len(path) |-> ReversedSegment(path[Len(path) + 1 - i])]

\* seg_lengths (line 552)
SegLengths(path) == [i \in 1..Len(path) |-> path[i].raw_length * 6]

\* seg_headings and edge_heading (lines 554-570, 633-649)
SegHeadings(path) == [i \in 1..Len(path) |-> <<path[i].heading_start, path[i].heading_end>>]

EdgeHeading(path) == <<path[1].heading_start, path[Len(path)].heading_end>>

\* slope of the reverse record (line 661)
ReverseSlope(slope) == (-1) * slope

\* The record stored under edge_id (lines 605-626).
ForwardRecord(child, edge_id, decoded) ==
    [edge_id          |-> edge_id,
     edge_type        |-> decoded.edge_type,
     edge_name        |-> decoded.edge_name,
     svg_id           |-> child.id,
     edge_svg_inverse |-> FALSE,
     length           |-> child.pathLength,
     heading          |-> EdgeHeading(child.d),
     slope            |-> child.slope,
     seg_types        |-> [i \in 1..Len(child.d) |-> child.d[i].type],
     seg_lengths      |-> SegLengths(child.d),
     seg_headings     |-> SegHeadings(child.d),
     seg_r_mins       |-> [i \in 1..Len(child.d) |-> child.d[i].r_min],
     seg_r_maxs       |-> [i \in 1..Len(child.d) |-> child.d[i].r_max],
     seg_r_meds       |-> [i \in 1..Len(child.d) |-> child.d[i].r_med],
     seg_r_mids       |-> [i \in 1..Len(child.d) |-> child.d[i].r_mid]]

\* The record stored under edge_id_rev (lines 628-671): the lists of the
\* forward record reversed in place, the headings computed anew from the
\* reversed path.
ReverseRecord(child, edge_id_rev, decoded) ==
    LET fwd == ForwardRecord(child, edge_id_rev, decoded)
    IN  [fwd EXCEPT !.edge_svg_inverse = TRUE,
                    !.heading      = EdgeHeading(PathReversed(child.d)),
                    !.slope        = ReverseSlope(child.slope),
                    !.seg_types    = Reverse(fwd.seg_types),
                    !.seg_lengths  = Reverse(fwd.seg_lengths),
                    !.seg_headings = SegHeadings(PathReversed(child.d)),
                    !.seg_r_mins   = Reverse(fwd.seg_r_mins),
                    !.seg_r_maxs   = Reverse(fwd.seg_r_maxs),
                    !.seg_r_meds   = Reverse(fwd.seg_r_meds),
                    !.seg_r_mids   = Reverse(fwd.seg_r_mids)]

\* Variant of IsDuplicate: no key counts as met before.
NeverDuplicate(edge_id, unsorted) == FALSE

\* The test of line 433: the key is in edges_dict_unsorted, which holds the
\* keys of the earlier elements and of their mirrors (lines 626 and 671).
IsDuplicate(edge_id, unsorted) == edge_id \in DOMAIN unsorted

\* One pass of the loop of lines 406-674 over path element child, on the
\* local state st = [unsorted, ids4sort, svgID_to_edgeID].
ImportPath(st, child, count) ==
    LET node_start  == NodeOfBound(child.bound1, count)
        node_end    == NodeOfBound(child.bound2, count)
        edge_id     == <<node_start, node_end>>
        edge_id_rev == <<node_end, node_start>>
        decoded     == DecodeName(child.edgeNameFromXPlane, child.type)
    IN  IF IsDuplicate(edge_id, st.unsorted)
        THEN st                                                 \* lines 433-435
        ELSE [unsorted |->
                 (edge_id_rev :> ReverseRecord(child, edge_id_rev, decoded))
                   @@ (edge_id :> ForwardRecord(child, edge_id, decoded))
                   @@ st.unsorted,
              ids4sort |->
                 st.ids4sort \o << <<Node4Sort(node_start), Node4Sort(node_end)>>,
                                   <<Node4Sort(node_end), Node4Sort(node_start)>> >>,
              svgID_to_edgeID |-> (child.id :> edge_id) @@ st.svgID_to_edgeID]

\* Lines 680-684: the key a sorted entry of edge_ids4sort is turned into.
KeyOfSorted(elem) ==
    IF elem[1] = -1 THEN <<None, elem[2]>>
    ELSE IF elem[2] = -1 THEN <<elem[1], None>>
    ELSE elem

\* The keys line 685 looks up in edges_dict_unsorted.
SortedKeys(ids4sort) == {KeyOfSorted(ids4sort[i]) : i \in 1..Len(ids4sort)}

ImportEdge ==
    /\ pc = "import_edges"
    /\ svg_paths # <<>>
    /\ LET st == ImportPath([unsorted |-> edges_dict_unsorted, ids4sort |-> edge_ids4sort,
                             svgID_to_edgeID |-> svgID_to_edgeID_dict],
                            Head(svg_paths), node_count_intersections)
       IN  /\ edges_dict_unsorted' = st.unsorted
           /\ edge_ids4sort' = st.ids4sort
           /\ svgID_to_edgeID_dict' = st.svgID_to_edgeID
    /\ svg_paths' = Tail(svg_paths)
    /\ UNCHANGED <<laterVars, pc, nodeVars, edges_dict, checkVars, rampVars>>

\* Lines 679-685.  The sort of edge_ids4sort fixes only the order of the
\* dict's keys; a key that is not in edges_dict_unsorted raises KeyError.
SortEdges ==
    /\ pc = "import_edges"
    /\ svg_paths = <<>>
    /\ IF SortedKeys(edge_ids4sort) \subseteq DOMAIN edges_dict_unsorted
       THEN /\ edges_dict' = [k \in SortedKeys(edge_ids4sort) |-> edges_dict_unsorted[k]]
            /\ pc' = "edges_done"
       ELSE /\ edges_dict' = edges_dict
            /\ pc' = "aborted"
    /\ UNCHANGED <<laterVars, nodeVars, svg_paths, edges_dict_unsorted, edge_ids4sort,
                   svgID_to_edgeID_dict, checkVars, rampVars>>

\* Sequences over S of length 1..n.
SeqUpTo(S, n) == UNION {[1..k -> S] : k \in 1..n}

\* The bound attributes, slopes, paths and names of the documents of SpecEdges.
EdgeBounds == {<<"none", 0>>, <<"intersection_node", 0>>, <<"termination_node", 0>>}
EdgeSlopes == {0, 2}
EdgePaths == {<<Line(0)>>, <<Line(0), Curve(0, 90)>>}
EdgeNames == {"Linear Feature", "G1_stand_TUD"}

PathLengthOf(d) == IF Len(d) = 1 THEN 6 ELSE 18

PathElement(b1, b2, slope, d, name) ==
    [bound1 |-> b1, bound2 |-> b2, slope |-> slope, d |-> d,
     pathLength |-> PathLengthOf(d), edgeNameFromXPlane |-> name,
     type |-> IF SvgNameHas(name, "serviceroad") THEN "service" ELSE "taxiway"]

\* The path elements of a document get their ids in document order.
WithIds(doc) == [i \in 1..Len(doc) |-> [id |-> <<"edge", i>>] @@ doc[i]]

InitEdges ==
    /\ LaterIdle
    /\ pc = "import_edges"
    /\ svg_nodes = Idle
    /\ node_iter = Idle
    /\ nodes_dict = Idle
    /\ node_count_intersections = 1
    /\ \E doc \in SeqUpTo({PathElement(b1, b2, s, d, n) :
                              b1 \in EdgeBounds, b2 \in EdgeBounds, s \in EdgeSlopes,
                              d \in EdgePaths, n \in EdgeNames}, MaxPaths) :
          svg_paths = WithIds(doc)
    /\ edges_dict_unsorted = EmptyDict
    /\ edge_ids4sort = <<>>
    /\ edges_dict = EmptyDict
    /\ svgID_to_edgeID_dict = EmptyDict
    /\ nodes_to_check = Idle
    /\ None_nodes = Idle
    /\ ramp2node_dict = Idle
    /\ ramp_dict = Idle
    /\ ramp_edges_set = Idle

NextEdges ==
    \/ ImportEdge
    \/ SortEdges

SpecEdges == InitEdges /\ [][NextEdges]_vars

\* The record at rev mirrors the record at key.
IsMirror(rec, rev) ==
    /\ rev.length = rec.length
    /\ rev.edge_type = rec.edge_type
    /\ rev.edge_name = rec.edge_name
    /\ rev.seg_types = Reverse(rec.seg_types)
    /\ rev.seg_lengths = Reverse(rec.seg_lengths)
    /\ rev.seg_r_mins = Reverse(rec.seg_r_mins)
    /\ rev.seg_r_maxs = Reverse(rec.seg_r_maxs)
    /\ rev.seg_r_meds = Reverse(rec.seg_r_meds)
    /\ rev.seg_r_mids = Reverse(rec.seg_r_mids)
    /\ rev.slope = (-1) * rec.slope

\* C1: import_edges ends with a registry in which every key (u,v) has its
\* mirror key (v,u), the two records sharing length, edge_type and edge_name,
\* with per-segment lists reversed and slopes negated, for every document
\* (segments from a node to itself and open endpoints included).
C1_MirrorInvariant ==
    pc = "edges_done" =>
        \A k \in DOMAIN edges_dict :
            /\ <<k[2], k[1]>> \in DOMAIN edges_dict
            /\ IsMirror(edges_dict[k], edges_dict[<<k[2], k[1]>>])

\* The whole loop of lines 406-674 over the path elements paths.
RECURSIVE ImportPaths(_, _, _)
ImportPaths(st, paths, count) ==
    IF paths = <<>> THEN st
    ELSE ImportPaths(ImportPath(st, Head(paths), count), Tail(paths), count)

\* import_edges as a whole on document doc: ok is FALSE when line 685 raises.
ImportedEdges(doc, count) ==
    LET st == ImportPaths([unsorted |-> EmptyDict, ids4sort |-> <<>>,
                           svgID_to_edgeID |-> EmptyDict], WithIds(doc), count)
        ok == SortedKeys(st.ids4sort) \subseteq DOMAIN st.unsorted
    IN  [ok |-> ok,
         edges_dict |-> IF ok THEN [k \in SortedKeys(st.ids4sort) |-> st.unsorted[k]]
                              ELSE EmptyDict,
         svgID_to_edgeID_dict |-> st.svgID_to_edgeID]

---------------------------------------------------------------------------
(* check_imports (Layout.py 690-757) and calc_euclidean_dist.              *)

\* Largest number of nodes in the registry check_imports scans.
MaxCheckNodes == 3

\* math.sqrt, rounded down to a whole number (found by bisection).
RECURSIVE ISqrtBetween(_, _, _)
ISqrtBetween(n, lo, hi) ==
    IF lo = hi THEN lo
    ELSE LET mid == (lo + hi + 1) \div 2
         IN  IF mid * mid <= n THEN ISqrtBetween(n, mid, hi)
                               ELSE ISqrtBetween(n, lo, mid - 1)

ISqrt(n) == ISqrtBetween(n, 0, IF n < 40000 THEN n ELSE 40000)

\* SVG coordinates are scaled to 1/6th (line 41 of _Layout_utilFuncs.py).
SvgScale == 6

\* Variant: the distance is left in drawing units.
calc_euclidean_dist_unscaled(p1_xy, p2_xy) ==
    ISqrt(((p1_xy[1] - p2_xy[1]) * (p1_xy[1] - p2_xy[1])
             + (p1_xy[2] - p2_xy[2]) * (p1_xy[2] - p2_xy[2])) * 10000)

\* calc_euclidean_dist: positions in tenths of a drawing unit, the result in
\* millimetres (the root is taken in thousandths of a drawing unit).
calc_euclidean_dist(p1_xy, p2_xy) ==
    ISqrt(((p1_xy[1] - p2_xy[1]) * (p1_xy[1] - p2_xy[1])
             + (p1_xy[2] - p2_xy[2]) * (p1_xy[2] - p2_xy[2])) * 10000) * SvgScale

\* The threshold of line 702, dist < 1 [m], in millimetres.
NearThreshold == 1000

\* Lines 694-703: the pairwise scan.
NodesToCheck(nodes) ==
    {n \in DOMAIN nodes :
        \E m \in DOMAIN nodes :
            /\ m # n
            /\ calc_euclidean_dist(nodes[n].pos_xy, nodes[m].pos_xy) < NearThreshold}

\* Lines 709-717: one entry per path element with an open endpoint, in the
\* order of svgID_to_edgeID_dict; the entry stands for the coordinates of the
\* path's first point (open start) or last point (open end).
RECURSIVE NoneNodes(_, _)
NoneNodes(svg2edge, i) ==
    IF <<"edge", i>> \notin DOMAIN svg2edge THEN <<>>
    ELSE LET edge_id == svg2edge[<<"edge", i>>]
             rest == NoneNodes(svg2edge, i + 1)
         IN  IF edge_id[1] = None THEN << <<edge_id, "path[0][0]">> >> \o rest
             ELSE IF edge_id[2] = None THEN << <<edge_id, "path[-1][-1]">> >> \o rest
             ELSE rest

CheckNearNodes ==
    /\ pc = "check_imports"
    /\ nodes_to_check' = NodesToCheck(nodes_dict)
    /\ pc' = "check_none_nodes"
    /\ UNCHANGED <<laterVars, nodeVars, edgeVars, None_nodes, rampVars>>

\* Lines 708-757; the checks of lines 723-757 only print.
CheckNoneNodes ==
    /\ pc = "check_none_nodes"
    /\ None_nodes' = NoneNodes(svgID_to_edgeID_dict, 1)
    /\ pc' = "check_done"
    /\ UNCHANGED <<laterVars, nodeVars, edgeVars, nodes_to_check, rampVars>>

\* The positions of the nodes of SpecCheck, in tenths of a drawing unit.
CheckPositions == {<<x, y>> : x \in {1000, 1001, 1004}, y \in {500, 503}}

\* The documents of SpecCheck: one path between two of its bounds.
CheckBounds == {<<"none", 0>>, <<"intersection_node", 0>>, <<"intersection_node", 1>>}

NodeAt(k, pos) == NewNode([id |-> <<"intersection_node", k>>, pos |-> pos], "TWY_intersection")

InitCheck ==
    /\ LaterIdle
    /\ pc = "check_imports"
    /\ svg_nodes = Idle
    /\ node_iter = Idle
    /\ \E k \in 2..MaxCheckNodes : \E ps \in [0..(k-1) -> CheckPositions] :
          /\ nodes_dict = [n \in 0..(k-1) |-> NodeAt(n, ps[n])]
          /\ node_count_intersections = k
    /\ svg_paths = <<>>
    /\ edges_dict_unsorted = Idle
    /\ edge_ids4sort = Idle
    /\ \E b1 \in CheckBounds, b2 \in CheckBounds :
          LET imp == ImportedEdges(<<PathElement(b1, b2, 0, <<Line(0)>>, "Linear Feature")>>,
                                   node_count_intersections)
          IN  /\ imp.ok
              /\ edges_dict = imp.edges_dict
              /\ svgID_to_edgeID_dict = imp.svgID_to_edgeID_dict
    /\ nodes_to_check = {}
    /\ None_nodes = <<>>
    /\ ramp2node_dict = Idle
    /\ ramp_dict = Idle
    /\ ramp_edges_set = Idle

NextCheck ==
    \/ CheckNearNodes
    \/ CheckNoneNodes

SpecCheck == InitCheck /\ [][NextCheck]_vars

\* Nodes n and m lie at the two positions of the scenario.
ScenarioPair(n, m) ==
    /\ n \in DOMAIN nodes_dict /\ m \in DOMAIN nodes_dict
    /\ nodes_dict[n].pos_xy = <<1000, 500>>
    /\ nodes_dict[m].pos_xy = <<1004, 503>>

\* C7 as claimed: two nodes at (100.0, 50.0) and (100.4, 50.3) are both in
\* nodes_to_check once check_imports has scanned the registry.
C7_ScenarioFlagged ==
    pc = "check_done" =>
        \A n, m \in DOMAIN nodes_dict :
            ScenarioPair(n, m) => {n, m} \subseteq nodes_to_check

\* C7 as amended: calc_euclidean_dist gives 3 m for the two positions of the
\* scenario (0.5 drawing units times 6), which is not below the threshold, so
\* the pair alone flags neither node; a node is flagged exactly when some
\* other node lies less than 1 m (a sixth of a drawing unit) from it.
C7_FlaggedIffWithinOneMetre ==
    /\ calc_euclidean_dist(<<1000, 500>>, <<1004, 503>>) = 3000
    /\ pc = "check_done" =>
          /\ \A n \in DOMAIN nodes_dict :
                n \in nodes_to_check <=>
                    \E m \in DOMAIN nodes_dict \ {n} :
                        36 * ((nodes_dict[n].pos_xy[1] - nodes_dict[m].pos_xy[1])
                                * (nodes_dict[n].pos_xy[1] - nodes_dict[m].pos_xy[1])
                              + (nodes_dict[n].pos_xy[2] - nodes_dict[m].pos_xy[2])
                                * (nodes_dict[n].pos_xy[2] - nodes_dict[m].pos_xy[2])) < 100
          /\ \A n, m \in DOMAIN nodes_dict :
                (ScenarioPair(n, m) /\ DOMAIN nodes_dict = {n, m}) => nodes_to_check = {}

\* The scan has run on a registry of exactly the two nodes of the scenario
\* and has flagged neither.
C7_Witness ==
    /\ pc = "check_done"
    /\ DOMAIN nodes_dict = {0, 1}
    /\ ScenarioPair(0, 1)
    /\ nodes_to_check = {}

---------------------------------------------------------------------------
(* enhance_imports (Layout.py 762-838).                                    *)

\* Largest number of path elements in a document of SpecEnhance.
MaxEnhPaths == 3

\* Lines 766-777: the adjacency of node n, from the keys of the registry.
\* An edge with an open start is entered at its end node only, an edge with
\* an open end at its start node (with None as a neighbour).
AdjacencyOf(n, edges) ==
    [neighbors       |-> {k[2] : k \in {e \in DOMAIN edges : e[1] # None /\ e[1] = n}},
     edges_from_node |-> {e \in DOMAIN edges : e[1] # None /\ e[1] = n},
     edges_to_node   |-> {e \in DOMAIN edges :
                             e[2] = n /\ (e[1] = None \/ e[2] # None)}]

WithAdjacency(nodes, edges) ==
    [n \in DOMAIN nodes |->
        [nodes[n] EXCEPT !.neighbors       = AdjacencyOf(n, edges).neighbors,
                         !.edges_from_node = AdjacencyOf(n, edges).edges_from_node,
                         !.edges_to_node   = AdjacencyOf(n, edges).edges_to_node]]

\* Lines 779-791: the Stand edges leaving and entering ramp node n.
StandEdges(S, edges) == {e \in S : edges[e].edge_type = "Stand"}

\* Lines 793-805: the subtype of node n after the service-road pass.
IsServiceRoadType(edge_type) == edge_type \in {"ServiceRoad", "CenterServiceRoad"}

\* Variant of ServiceRoadSubtype: a node that no edge leaves keeps its subtype.
ServiceRoadSubtypeNonEmpty(n, nodes, edges) ==
    IF nodes[n].node_type # "TWY_intersection" THEN nodes[n].node_type
    ELSE IF /\ nodes[n].edges_from_node # {}
            /\ \A e \in nodes[n].edges_from_node : IsServiceRoadType(edges[e].edge_type)
         THEN "SR_intersection"
         ELSE "TWY_intersection"

ServiceRoadSubtype(n, nodes, edges) ==
    IF nodes[n].node_type # "TWY_intersection" THEN nodes[n].node_type
    ELSE IF \A e \in nodes[n].edges_from_node : IsServiceRoadType(edges[e].edge_type)
         THEN "SR_intersection"
         ELSE "TWY_intersection"

Min(a, b) == IF a <= b THEN a ELSE b

\* Variant: the difference of the headings without the wrap at 0/360.
HeadingDiffNoWrap(heading_ownEnd, heading_nextStart) ==
    IF heading_ownEnd >= heading_nextStart THEN heading_ownEnd - heading_nextStart
                                           ELSE heading_nextStart - heading_ownEnd

\* heading_diff (line 820)
HeadingDiff(heading_ownEnd, heading_nextStart) ==
    Min((heading_ownEnd - heading_nextStart) % 360,
        (heading_nextStart - heading_ownEnd) % 360)

\* The limits of lines 821 and 823.
SharpTurnLimit == 135
SlowTurnLimit == 30

\* Variant: a turn of exactly the limit is accepted.
IsContinuationInclusive(edge_id, next_edge_id, edges) ==
    /\ next_edge_id # <<edge_id[2], edge_id[1]>>
    /\ HeadingDiff(edges[edge_id].heading[2], edges[next_edge_id].heading[1]) <= SharpTurnLimit

\* Lines 817-822: next_edge_id, an edge leaving the end node of edge_id, is
\* added to next_edges.
IsContinuation(edge_id, next_edge_id, edges) ==
    /\ next_edge_id # <<edge_id[2], edge_id[1]>>
    /\ HeadingDiff(edges[edge_id].heading[2], edges[next_edge_id].heading[1]) < SharpTurnLimit

\* isSlowTurn (line 823)
IsSlowTurn(edge_id, next_edge_id, edges) ==
    HeadingDiff(edges[edge_id].heading[2], edges[next_edge_id].heading[1]) > SlowTurnLimit

\* next_edges of edge_id (lines 810-822)
NextEdgesOf(edge_id, nodes, edges) ==
    IF edge_id[2] # None
    THEN {c \in nodes[edge_id[2]].edges_from_node : IsContinuation(edge_id, c, edges)}
    ELSE {}

\* Lines 807-826 for the whole registry.
WithNextEdges(nodes, edges) ==
    [e \in DOMAIN edges |->
        [next_edges |-> NextEdgesOf(e, nodes, edges),
         next_edges_isSlowTurn |->
             [c \in NextEdgesOf(e, nodes, edges) |-> IsSlowTurn(e, c, edges)]]
        @@ edges[e]]

\* next_edges_dirSwitch of edge_id (lines 834-837)
DirSwitchOf(edge_id, nodes, edges) ==
    nodes[edge_id[2]].edges_from_node
        \ {k \in DOMAIN edges[edge_id].next_edges_isSlowTurn :
              ~edges[edge_id].next_edges_isSlowTurn[k]}

\* The order of the keys of edges_dict, which is that of the sorted
\* edge_ids4sort (lines 679-685).
KeyBefore(k1, k2) ==
    \/ Node4Sort(k1[1]) < Node4Sort(k2[1])
    \/ Node4Sort(k1[1]) = Node4Sort(k2[1]) /\ Node4Sort(k1[2]) < Node4Sort(k2[2])

\* The keys at which line 835 raises KeyError: the end node is None, which
\* is no key of nodes_dict.
DirSwitchRaises(edges) == {e \in DOMAIN edges : e[2] = None}

EnhanceAdjacency ==
    /\ pc = "enhance_imports"
    /\ nodes_dict' = WithAdjacency(nodes_dict, edges_dict)
    /\ pc' = "ramp_edges"
    /\ UNCHANGED <<laterVars, svg_nodes, node_iter, node_count_intersections, edgeVars, checkVars,
                   rampVars>>

EnhanceRampEdges ==
    /\ pc = "ramp_edges"
    /\ ramp_edges_set' =
          UNION {StandEdges(nodes_dict[ramp2node_dict[r]].edges_from_node, edges_dict)
                   \cup StandEdges(nodes_dict[ramp2node_dict[r]].edges_to_node, edges_dict) :
                 r \in DOMAIN ramp2node_dict}
    /\ ramp_dict' =
          [n \in DOMAIN ramp_dict |->
              [ramp_dict[n] EXCEPT
                  !.edges_from_ramp = StandEdges(nodes_dict[n].edges_from_node, edges_dict),
                  !.edges_to_ramp   = StandEdges(nodes_dict[n].edges_to_node, edges_dict)]]
    /\ pc' = "service_roads"
    /\ UNCHANGED <<laterVars, nodeVars, edgeVars, checkVars, ramp2node_dict>>

EnhanceServiceRoads ==
    /\ pc = "service_roads"
    /\ nodes_dict' =
          [n \in DOMAIN nodes_dict |->
              [nodes_dict[n] EXCEPT !.node_type = ServiceRoadSubtype(n, nodes_dict, edges_dict)]]
    /\ pc' = "next_edges"
    /\ UNCHANGED <<laterVars, svg_nodes, node_iter, node_count_intersections, edgeVars, checkVars,
                   rampVars>>

EnhanceNextEdges ==
    /\ pc = "next_edges"
    /\ edges_dict' = WithNextEdges(nodes_dict, edges_dict)
    /\ pc' = "dir_switch"
    /\ UNCHANGED <<laterVars, nodeVars, svg_paths, edges_dict_unsorted, edge_ids4sort,
                   svgID_to_edgeID_dict, checkVars, rampVars>>

\* Lines 832-838.  The loop runs over the keys in their order and stops at
\* the first key whose end node is None.
EnhanceDirSwitch ==
    /\ pc = "dir_switch"
    /\ LET raises == DirSwitchRaises(edges_dict)
           done == {e \in DOMAIN edges_dict : \A r \in raises : KeyBefore(e, r)}
       IN  /\ edges_dict' =
                 [e \in DOMAIN edges_dict |->
                     IF e \in done
                     THEN [next_edges_dirSwitch |-> DirSwitchOf(e, nodes_dict, edges_dict)]
                             @@ edges_dict[e]
                     ELSE edges_dict[e]]
           /\ pc' = IF raises = {} THEN "enhance_done" ELSE "aborted"
    /\ UNCHANGED <<laterVars, nodeVars, svg_paths, edges_dict_unsorted, edge_ids4sort,
                   svgID_to_edgeID_dict, checkVars, rampVars>>

\* The documents of SpecEnhance: straight paths between the bounds of
\* EnhBoundPairs, at most one per pair, over the nodes 0 (the ramp G1), 1 and 2.
EnhBoundPairs ==
    << <<<<"intersection_node", 0>>, <<"intersection_node", 1>>>>,
       <<<<"intersection_node", 1>>, <<"intersection_node", 2>>>>,
       <<<<"intersection_node", 0>>, <<"intersection_node", 2>>>>,
       <<<<"intersection_node", 1>>, <<"none", 0>>>> >>

EnhHeadings == {350, 10, 20, 124, 125}

EnhNames(i) == IF i = 1 THEN {"A_TUD", "serviceroad_TUD", "G1_stand_TUD"}
               ELSE IF i = 3 THEN {"A_TUD", "center_serviceroad_TUD"}
               ELSE {"A_TUD", "serviceroad_TUD"}

\* The elements of the pairs picked by choice (0: the pair has no path).
RECURSIVE EnhDocument(_, _)
EnhDocument(choice, i) ==
    IF i > Len(EnhBoundPairs) THEN <<>>
    ELSE IF choice[i] = <<>> THEN EnhDocument(choice, i + 1)
    ELSE << PathElement(EnhBoundPairs[i][1], EnhBoundPairs[i][2], 0,
                        <<Line(choice[i][1])>>, choice[i][2]) >>
            \o EnhDocument(choice, i + 1)

EnhChoices ==
    {c \in [1..Len(EnhBoundPairs) -> {<<>>} \cup (EnhHeadings \X SvgNames)] :
        /\ \A i \in 1..Len(EnhBoundPairs) : c[i] # <<>> => c[i][2] \in EnhNames(i)
        /\ Cardinality({i \in 1..Len(EnhBoundPairs) : c[i] # <<>>}) \in 1..MaxEnhPaths}

EnhNodes ==
    (0 :> [NodeAt(0, SvgPos("intersection_node", 0)) EXCEPT !.node_type = "Ramp",
                                                           !.node_name = "G1"])
    @@ [n \in 1..2 |-> NodeAt(n, SvgPos("intersection_node", n))]

NewRamp(name) == [name |-> name, edges_from_ramp |-> {}, edges_to_ramp |-> {},
                  edges_entries |-> {}, pushback |-> EmptyDict]

InitEnhance ==
    /\ LaterIdle
    /\ pc = "enhance_imports"
    /\ svg_nodes = Idle
    /\ node_iter = Idle
    /\ nodes_dict = EnhNodes
    /\ node_count_intersections = 3
    /\ svg_paths = <<>>
    /\ edges_dict_unsorted = Idle
    /\ edge_ids4sort = Idle
    /\ \E choice \in EnhChoices :
          LET imp == ImportedEdges(EnhDocument(choice, 1), node_count_intersections)
          IN  /\ imp.ok
              /\ edges_dict = imp.edges_dict
              /\ svgID_to_edgeID_dict = imp.svgID_to_edgeID_dict
    /\ nodes_to_check = Idle
    /\ None_nodes = Idle
    /\ ramp2node_dict = ("G1" :> 0)
    /\ ramp_dict = (0 :> NewRamp("G1"))
    /\ ramp_edges_set = {}

NextEnhance ==
    \/ EnhanceAdjacency
    \/ EnhanceRampEdges
    \/ EnhanceServiceRoads
    \/ EnhanceNextEdges
    \/ EnhanceDirSwitch

SpecEnhance == InitEnhance /\ [][NextEnhance]_vars

\* The angle between two headings, taken the short way round the circle.
TurnAngle(a, b) ==
    LET d == IF a >= b THEN a - b ELSE b - a
    IN  IF d > 180 THEN 360 - d ELSE d

\* next_edges has been computed.
NextEdgesComputed == pc \in {"dir_switch", "enhance_done", "aborted"}

\* Edge c leaves the end node of edge e.
Departs(c, e) == e[2] # None /\ c[1] = e[2]

TurnOf(e, c) == TurnAngle(edges_dict[e].heading[2], edges_dict[c].heading[1])

\* C8: once enhance_imports has computed next_edges, an edge c leaving the
\* resolved end node of e is in e.next_edges exactly when c is not the direct
\* reverse of e and the turn angle from e to c is strictly below 135 degrees.
C8_ContinuationIffNotReverseAndBelow135 ==
    NextEdgesComputed =>
        \A e \in DOMAIN edges_dict :
            /\ edges_dict[e].next_edges \subseteq {c \in DOMAIN edges_dict : Departs(c, e)}
            /\ \A c \in DOMAIN edges_dict :
                  Departs(c, e) =>
                      (c \in edges_dict[e].next_edges
                          <=> (c # <<e[2], e[1]>> /\ TurnOf(e, c) < 135))

\* A turn of exactly 135 degrees was rejected and a turn below it accepted.
C8_Witness ==
    /\ NextEdgesComputed
    /\ \E e \in DOMAIN edges_dict, c \in DOMAIN edges_dict :
          /\ Departs(c, e) /\ c # <<e[2], e[1]>>
          /\ TurnOf(e, c) = 135
          /\ c \notin edges_dict[e].next_edges
    /\ \E e \in DOMAIN edges_dict, c \in DOMAIN edges_dict :
          /\ Departs(c, e)
          /\ TurnOf(e, c) = 134
          /\ c \in edges_dict[e].next_edges

\* C9: a continuation is tagged slow-turn exactly when its turn angle, taken
\* across the 0/360 wrap, is strictly above 30 degrees; an edge ending at
\* heading 350 followed by one starting at heading 10 (turn angle 20) is
\* accepted and not tagged.
C9_SlowTurnIffAbove30 ==
    NextEdgesComputed =>
        \A e \in DOMAIN edges_dict :
            /\ DOMAIN edges_dict[e].next_edges_isSlowTurn = edges_dict[e].next_edges
            /\ \A c \in edges_dict[e].next_edges :
                  edges_dict[e].next_edges_isSlowTurn[c] <=> TurnOf(e, c) > 30
            /\ \A c \in DOMAIN edges_dict :
                  (/\ Departs(c, e) /\ c # <<e[2], e[1]>>
                   /\ edges_dict[e].heading[2] = 350
                   /\ edges_dict[c].heading[1] = 10)
                  => (c \in edges_dict[e].next_edges
                         /\ ~edges_dict[e].next_edges_isSlowTurn[c])

\* The scenario has happened: an edge ending at 350 is followed by one
\* starting at 10, and a turn of exactly 30 degrees is a continuation too.
C9_Witness ==
    /\ NextEdgesComputed
    /\ \E e \in DOMAIN edges_dict, c \in DOMAIN edges_dict :
          /\ Departs(c, e) /\ c # <<e[2], e[1]>>
          /\ edges_dict[e].heading[2] = 350
          /\ edges_dict[c].heading[1] = 10
          /\ c \in edges_dict[e].next_edges
          /\ ~edges_dict[e].next_edges_isSlowTurn[c]
    /\ \E e \in DOMAIN edges_dict :
          \E c \in edges_dict[e].next_edges : TurnOf(e, c) = 30

\* next_edges_dirSwitch of e is recorded and is what the claim says: the
\* edges leaving the end node of e less the continuations not tagged slow.
DirSwitchAsClaimed(e) ==
    /\ "next_edges_dirSwitch" \in DOMAIN edges_dict[e]
    /\ edges_dict[e].next_edges_dirSwitch =
          {c \in DOMAIN edges_dict : Departs(c, e)}
             \ {c \in edges_dict[e].next_edges : ~edges_dict[e].next_edges_isSlowTurn[c]}

\* C10: when enhance_imports has ended, every edge of the registry carries
\* next_edges_dirSwitch, equal to the edges leaving its end node less its
\* continuations that are not tagged slow-turn.
C10_DirSwitchForEveryEdge ==
    pc \in {"enhance_done", "aborted"} =>
        \A e \in DOMAIN edges_dict : DirSwitchAsClaimed(e)

\* What the code does give: the same, for the registries with no open end
\* (the only ones on which enhance_imports runs to its end).
DirSwitchOnCompletion ==
    /\ pc = "enhance_done" =>
          /\ \A e \in DOMAIN edges_dict : e[2] # None /\ DirSwitchAsClaimed(e)
    /\ pc = "aborted" => \E e \in DOMAIN edges_dict : e[2] = None

(***************************************************************************)
(* create_pushpull_data (Layout.py, lines 1049-1185)                       *)
(***************************************************************************)

\* Largest number of path elements that name a Standard push-back path of the gate.
MaxFrags == 2

\* The aircraft categories of a gate's bucket, in the order the dict is created with.
STypes == <<"Standard", "ICAO-A", "ICAO-B", "ICAO-C", "ICAO-D", "ICAO-E", "ICAO-F">>

STypeSet == {STypes[i] : i \in 1..Len(STypes)}

\* {'Standard': [], 'ICAO-A': [], ..., 'ICAO-F': []}
EmptyCategories == [s \in STypeSet |-> <<>>]

\* edge_id_rev of an edge id.
ReverseEdge(e) == <<e[2], e[1]>>

\* What import_edges leaves in a bucket for path elements with the edge ids
\* frags, in document order: bucket.extend([edge_id, edge_id_rev]) for each.
PoolOf(frags) ==
    [i \in 1..(2 * Len(frags)) |->
        IF i % 2 = 1 THEN frags[(i + 1) \div 2] ELSE ReverseEdge(frags[i \div 2])]

\* list.index(x)
IndexOf(lst, x) == CHOOSE i \in 1..Len(lst) : lst[i] = x /\ \A j \in 1..(i - 1) : lst[j] # x

\* list.pop(i)
PopAt(lst, i) == SubSeq(lst, 1, i - 1) \o SubSeq(lst, i + 1, Len(lst))

\* Variant of LastNode: the start node of the last edge of the chain.
FirstNodeOfLast(path) == path[Len(path)][1]

\* pb_path_lst[-1][1]
LastNode(path) == path[Len(path)][2]

\* Variant of MatchesStart: the fragment ends at the node.
MatchesEnd(pot_edge, node) == pot_edge[2] = node

\* pot_pb_edge[0] == last_node
MatchesStart(pot_edge, node) == pot_edge[1] = node

\* Variant of FirstMatch: of the fragments of the pool that start at the
\* node, the position of the one with the smallest end node.
SmallestMatch(pot_edges, node) ==
    LET M == {i \in 1..Len(pot_edges) : pot_edges[i][1] = node}
    IN  IF M = {} THEN 0
        ELSE CHOOSE i \in M : \A j \in M :
                 pot_edges[i][2] < pot_edges[j][2] \/ (pot_edges[i][2] = pot_edges[j][2] /\ i <= j)

\* The for-loop that looks for the next edge: the position of the first
\* fragment of the pool that starts at the node, 0 if there is none
\* (next_pb_edge is None).
FirstMatch(pot_edges, node) ==
    LET M == {i \in 1..Len(pot_edges) : MatchesStart(pot_edges[i], node)}
    IN  IF M = {} THEN 0 ELSE CHOOSE i \in M : \A j \in M : i <= j

\* Variant of RemoveUsed: the mirror of the edge stays in the pool.
RemoveUsedKeepMirror(pot_edges, next_edge) == PopAt(pot_edges, IndexOf(pot_edges, next_edge))

\* The pool after the chosen edge and then its mirror are popped.
RemoveUsed(pot_edges, next_edge) ==
    LET popped == PopAt(pot_edges, IndexOf(pot_edges, next_edge))
    IN  PopAt(popped, IndexOf(popped, ReverseEdge(next_edge)))

\* The while-loop goes round once more: the pool is not empty and holds a
\* fragment that starts at the node.
LoopContinues(pot_edges, node) == pot_edges # <<>> /\ FirstMatch(pot_edges, node) # 0

\* The chain the while-loop of the push path ends with, started with the
\* chain path and the pool pot_edges.
RECURSIVE RunChain(_, _)
RunChain(path, pot_edges) ==
    IF ~LoopContinues(pot_edges, LastNode(path)) THEN path
    ELSE LET next_edge == pot_edges[FirstMatch(pot_edges, LastNode(path))]
         IN  RunChain(Append(path, next_edge), RemoveUsed(pot_edges, next_edge))

\* The ramps of the model, in the order import_nodes meets them.
RampOrder == <<"G1">>

\* dict.keys() of a bucket.
KeysOf(d) == SelectSeq(RampOrder, LAMBDA g : g \in DOMAIN d)

\* The loops that build the category groups of one ramp: the dict groups
\* after the categories from position i on are visited.
RECURSIVE GroupScan(_, _, _, _, _)
GroupScan(paths, i, temp_lst, last_cat, groups) ==
    IF i > Len(STypes) THEN (temp_lst :> last_cat) @@ groups
    ELSE LET sType == STypes[i]
         IN  IF paths[sType] = <<>>
             THEN GroupScan(paths, i + 1,
                            IF sType # "Standard" THEN Append(temp_lst, sType) ELSE temp_lst,
                            last_cat, groups)
             ELSE IF sType # "Standard"
             THEN GroupScan(paths, i + 1, <<sType>>, sType, (temp_lst :> last_cat) @@ groups)
             ELSE GroupScan(paths, i + 1, temp_lst, last_cat, groups)

GroupsOf(paths) == GroupScan(paths, 1, <<>>, "Standard", EmptyDict)

\* The dict of a ramp after its categories with an empty chain are popped.
WithoutEmpty(paths) == [s \in {t \in DOMAIN paths : paths[t] # <<>>} |-> paths[s]]

\* The ramp and the category the running loops are at.
CurrentRamp == Head(ramp_iter)

CurrentType == Head(stype_iter)

earlierVars == <<nodeVars, edgeVars, checkVars, ramp_edges_set, rwyVars, indexVars>>

\* Lines 1057-1058: the dict of the push chains is created and the loop over
\* the ramps with a push-back bucket starts.
PushStart ==
    /\ pc = "create_pushpull_data"
    /\ edges_pushback_dict' = EmptyDict
    /\ ramp_iter' = KeysOf(svgEdges_pushback_dict)
    /\ pc' = "push_ramps"
    /\ UNCHANGED <<earlierVars, ramp2node_dict, ramp_dict, bucketVars, edges_pull_dict,
                   stype_iter, pb_path_lst, pull_path_lst, last_node, push_groups,
                   pull_groups>>

\* Lines 1059-1064: the next ramp of the loop; more or fewer than one outgoing
\* stand edge fails the assertion of line 1063.
PushNextRamp ==
    /\ pc = "push_ramps"
    /\ ramp_iter # <<>>
    /\ LET ramp_id == CurrentRamp
           ramp_node == ramp2node_dict[ramp_id]
           stand_edge_outgoing == ramp_dict[ramp_node].edges_from_ramp
       IN  /\ edges_pushback_dict' =
                 IF ramp_id \in DOMAIN edges_pushback_dict THEN edges_pushback_dict
                 ELSE (ramp_id :> EmptyCategories) @@ edges_pushback_dict
           /\ IF Cardinality(stand_edge_outgoing) = 1
              THEN pc' = "push_types" /\ stype_iter' = STypes
              ELSE pc' = "aborted" /\ UNCHANGED stype_iter
    /\ UNCHANGED <<earlierVars, ramp2node_dict, ramp_dict, bucketVars, edges_pull_dict,
                   ramp_iter, pb_path_lst, pull_path_lst, last_node, push_groups,
                   pull_groups>>

\* stand_edge_outgoing[0] of the ramp.
StandEdge(ramp_id) ==
    CHOOSE e \in ramp_dict[ramp2node_dict[ramp_id]].edges_from_ramp : TRUE

\* Lines 1064-1068: the next category of the ramp; a category with fragments
\* starts a chain with the stand edge, one without is passed over.
PushNextType ==
    /\ pc = "push_types"
    /\ stype_iter # <<>>
    /\ IF Len(svgEdges_pushback_dict[CurrentRamp][CurrentType]) > 0
       THEN /\ pb_path_lst' = <<StandEdge(CurrentRamp)>>
            /\ pc' = "push_chain"
            /\ UNCHANGED stype_iter
       ELSE /\ stype_iter' = Tail(stype_iter)
            /\ UNCHANGED <<pc, pb_path_lst>>
    /\ UNCHANGED <<earlierVars, ramp2node_dict, ramp_dict, bucketVars, edges_pushback_dict,
                   edges_pull_dict, ramp_iter, pull_path_lst, last_node, push_groups,
                   pull_groups>>

\* Lines 1071-1086, one round of the while-loop that finds a next edge: the
\* edge is appended to the chain, and it and its mirror leave the pool (the
\* pool is the list of the bucket itself).
PushChainStep ==
    /\ pc = "push_chain"
    /\ LET pot_pb_edges == svgEdges_pushback_dict[CurrentRamp][CurrentType]
           node == LastNode(pb_path_lst)
       IN  /\ LoopContinues(pot_pb_edges, node)
           /\ LET next_pb_edge == pot_pb_edges[FirstMatch(pot_pb_edges, node)]
              IN  /\ pb_path_lst' = Append(pb_path_lst, next_pb_edge)
                  /\ svgEdges_pushback_dict' =
                        [svgEdges_pushback_dict EXCEPT ![CurrentRamp][CurrentType] =
                            RemoveUsed(pot_pb_edges, next_pb_edge)]
    /\ UNCHANGED <<pc, earlierVars, ramp2node_dict, ramp_dict, svgEdges_pull_dict,
                   edges_pushback_dict, edges_pull_dict, ramp_iter, stype_iter,
                   pull_path_lst, last_node, push_groups, pull_groups>>

\* Lines 1071, 1080-1081, 1088: the while-loop ends (empty pool or no next
\* edge) and the chain is stored for the ramp and the category.
PushChainStore ==
    /\ pc = "push_chain"
    /\ ~LoopContinues(svgEdges_pushback_dict[CurrentRamp][CurrentType],
                      LastNode(pb_path_lst))
    /\ edges_pushback_dict' =
          [edges_pushback_dict EXCEPT ![CurrentRamp][CurrentType] = pb_path_lst]
    /\ stype_iter' = Tail(stype_iter)
    /\ pc' = "push_types"
    /\ UNCHANGED <<earlierVars, ramp2node_dict, ramp_dict, bucketVars, edges_pull_dict,
                   ramp_iter, pb_path_lst, pull_path_lst, last_node, push_groups,
                   pull_groups>>

\* The loop over the categories of the ramp is over: on to the next ramp.
PushTypesDone ==
    /\ pc = "push_types"
    /\ stype_iter = <<>>
    /\ ramp_iter' = Tail(ramp_iter)
    /\ pc' = "push_ramps"
    /\ UNCHANGED <<earlierVars, ramp2node_dict, ramp_dict, bucketVars, edges_pushback_dict,
                   edges_pull_dict, stype_iter, pb_path_lst, pull_path_lst, last_node,
                   push_groups, pull_groups>>

\* Lines 1091-1092: the loop over the ramps is over; the dict of the pull
\* chains is created and the loop over the ramps with a pull bucket starts.
PushRampsDone ==
    /\ pc = "push_ramps"
    /\ ramp_iter = <<>>
    /\ edges_pull_dict' = EmptyDict
    /\ ramp_iter' = KeysOf(svgEdges_pull_dict)
    /\ pc' = "pull_ramps"
    /\ UNCHANGED <<earlierVars, ramp2node_dict, ramp_dict, bucketVars, edges_pushback_dict,
                   stype_iter, pb_path_lst, pull_path_lst, last_node, push_groups,
                   pull_groups>>

\* Lines 1093-1096: the next ramp of the pull loop.
PullNextRamp ==
    /\ pc = "pull_ramps"
    /\ ramp_iter # <<>>
    /\ edges_pull_dict' =
          IF CurrentRamp \in DOMAIN edges_pull_dict THEN edges_pull_dict
          ELSE (CurrentRamp :> EmptyCategories) @@ edges_pull_dict
    /\ stype_iter' = STypes
    /\ pc' = "pull_types"
    /\ UNCHANGED <<earlierVars, ramp2node_dict, ramp_dict, bucketVars, edges_pushback_dict,
                   ramp_iter, pb_path_lst, pull_path_lst, last_node, push_groups,
                   pull_groups>>

\* Lines 1098-1099: a category without a push chain of its own takes the
\* Standard push chain.
WithStandardPush(pushback, ramp_id, sType) ==
    IF Len(pushback[ramp_id][sType]) = 0
    THEN [pushback EXCEPT ![ramp_id][sType] = pushback[ramp_id]["Standard"]]
    ELSE pushback

\* Lines 1096-1105: the next category of the ramp.  A category with pull
\* fragments reads the push chain of the ramp: a ramp without any push chain
\* raises KeyError at line 1098, an empty push chain IndexError at line 1100.
PullNextType ==
    /\ pc = "pull_types"
    /\ stype_iter # <<>>
    /\ IF Len(svgEdges_pull_dict[CurrentRamp][CurrentType]) = 0
       THEN /\ stype_iter' = Tail(stype_iter)
            /\ UNCHANGED <<pc, edges_pushback_dict, pull_path_lst, last_node>>
       ELSE IF CurrentRamp \notin DOMAIN edges_pushback_dict
       THEN /\ pc' = "aborted"
            /\ UNCHANGED <<stype_iter, edges_pushback_dict, pull_path_lst, last_node>>
       ELSE LET pushback == WithStandardPush(edges_pushback_dict, CurrentRamp, CurrentType)
            IN  /\ edges_pushback_dict' = pushback
                /\ IF pushback[CurrentRamp][CurrentType] = <<>>
                   THEN /\ pc' = "aborted"
                        /\ UNCHANGED <<stype_iter, pull_path_lst, last_node>>
                   ELSE /\ last_node' = LastNode(pushback[CurrentRamp][CurrentType])
                        /\ pull_path_lst' = <<>>
                        /\ pc' = "pull_chain"
                        /\ UNCHANGED stype_iter
    /\ UNCHANGED <<earlierVars, ramp2node_dict, ramp_dict, bucketVars, edges_pull_dict,
                   ramp_iter, pb_path_lst, push_groups, pull_groups>>

\* Lines 1106-1121, one round of the while-loop that finds a next edge.
PullChainStep ==
    /\ pc = "pull_chain"
    /\ LET pot_pull_edges == svgEdges_pull_dict[CurrentRamp][CurrentType]
       IN  /\ LoopContinues(pot_pull_edges, last_node)
           /\ LET next_pull_edge == pot_pull_edges[FirstMatch(pot_pull_edges, last_node)]
              IN  /\ pull_path_lst' = Append(pull_path_lst, next_pull_edge)
                  /\ svgEdges_pull_dict' =
                        [svgEdges_pull_dict EXCEPT ![CurrentRamp][CurrentType] =
                            RemoveUsed(pot_pull_edges, next_pull_edge)]
                  /\ last_node' = next_pull_edge[2]
    /\ UNCHANGED <<pc, earlierVars, ramp2node_dict, ramp_dict, svgEdges_pushback_dict,
                   edges_pushback_dict, edges_pull_dict, ramp_iter, stype_iter,
                   pb_path_lst, push_groups, pull_groups>>

\* Lines 1106, 1114-1115, 1123-1124: the while-loop ends and a chain that is
\* not empty is stored for the ramp and the category.
PullChainStore ==
    /\ pc = "pull_chain"
    /\ ~LoopContinues(svgEdges_pull_dict[CurrentRamp][CurrentType], last_node)
    /\ edges_pull_dict' =
          IF Len(pull_path_lst) # 0
          THEN [edges_pull_dict EXCEPT ![CurrentRamp][CurrentType] = pull_path_lst]
          ELSE edges_pull_dict
    /\ stype_iter' = Tail(stype_iter)
    /\ pc' = "pull_types"
    /\ UNCHANGED <<earlierVars, ramp2node_dict, ramp_dict, bucketVars, edges_pushback_dict,
                   ramp_iter, pb_path_lst, pull_path_lst, last_node, push_groups,
                   pull_groups>>

\* The loop over the categories of the ramp is over: on to the next ramp.
PullTypesDone ==
    /\ pc = "pull_types"
    /\ stype_iter = <<>>
    /\ ramp_iter' = Tail(ramp_iter)
    /\ pc' = "pull_ramps"
    /\ UNCHANGED <<earlierVars, ramp2node_dict, ramp_dict, bucketVars, edges_pushback_dict,
                   edges_pull_dict, stype_iter, pb_path_lst, pull_path_lst, last_node,
                   push_groups, pull_groups>>

\* The loop over the ramps with a pull bucket is over.
PullRampsDone ==
    /\ pc = "pull_ramps"
    /\ ramp_iter = <<>>
    /\ pc' = "groups"
    /\ UNCHANGED <<earlierVars, ramp2node_dict, ramp_dict, bucketVars, chainVars>>

\* Lines 1126-1164: the category groups of the pull and of the push chains;
\* the categories without a push chain are popped, and so is a ramp that is
\* left without any.
GroupPaths ==
    /\ pc = "groups"
    /\ pull_groups' = [r \in DOMAIN edges_pull_dict |-> GroupsOf(edges_pull_dict[r])]
    /\ push_groups' = [r \in DOMAIN edges_pushback_dict |-> GroupsOf(edges_pushback_dict[r])]
    /\ edges_pushback_dict' =
          [r \in {q \in DOMAIN edges_pushback_dict :
                     WithoutEmpty(edges_pushback_dict[q]) # EmptyDict}
              |-> WithoutEmpty(edges_pushback_dict[r])]
    /\ pc' = "fill"
    /\ UNCHANGED <<earlierVars, ramp2node_dict, ramp_dict, bucketVars, edges_pull_dict,
                   ramp_iter, stype_iter, pb_path_lst, pull_path_lst, last_node>>

\* Line 1172 finds the push chain of the group's category.
HasPushChain(ramp_id, sType_group) ==
    /\ ramp_id \in DOMAIN edges_pushback_dict
    /\ push_groups[ramp_id][sType_group] \in DOMAIN edges_pushback_dict[ramp_id]

\* The condition of line 1173.
HasPullChain(ramp_id, sType_group) ==
    /\ ramp_id \in DOMAIN pull_groups
    /\ sType_group \in DOMAIN pull_groups[ramp_id]
    /\ edges_pull_dict[ramp_id][pull_groups[ramp_id][sType_group]] # <<>>

\* Lines 1171-1177: the entry of one group in the ramp's 'pushback' dict.
GroupEntry(ramp_id, sType_group) ==
    LET edges_push == edges_pushback_dict[ramp_id][push_groups[ramp_id][sType_group]]
    IN  IF HasPullChain(ramp_id, sType_group)
        THEN [edges_push |-> edges_push,
              edges_pull |-> edges_pull_dict[ramp_id][pull_groups[ramp_id][sType_group]],
              pb_type |-> "push-pull"]
        ELSE [edges_push |-> edges_push, pb_type |-> "pushback"]

\* The 'pushback' dict of a ramp after the loop of lines 1170-1177.  A group
\* whose category has no push chain left raises KeyError at line 1172, after
\* line 1171 gave the group an empty dict; it is the group of 'Standard', the
\* first one of the dict.
FilledPushback(ramp_id, pushback) ==
    IF ramp_id \notin DOMAIN push_groups THEN pushback
    ELSE LET G == DOMAIN push_groups[ramp_id]
         IN  IF \E g \in G : ~HasPushChain(ramp_id, g)
             THEN [g \in {h \in G : ~HasPushChain(ramp_id, h)} |-> EmptyDict] @@ pushback
             ELSE [g \in G |-> GroupEntry(ramp_id, g)] @@ pushback

FillRaises ==
    \E r \in DOMAIN push_groups : \E g \in DOMAIN push_groups[r] : ~HasPushChain(r, g)

\* Lines 1166-1177: the chains are added to the ramp registry.
FillRampDict ==
    /\ pc = "fill"
    /\ ramp_dict' =
          [n \in DOMAIN ramp_dict |->
              IF \E r \in DOMAIN ramp2node_dict : ramp2node_dict[r] = n
              THEN LET ramp_id == CHOOSE r \in DOMAIN ramp2node_dict : ramp2node_dict[r] = n
                   IN  [ramp_dict[n] EXCEPT !.pushback = FilledPushback(ramp_id, @)]
              ELSE ramp_dict[n]]
    /\ pc' = IF FillRaises THEN "aborted" ELSE "cleanup"
    /\ UNCHANGED <<earlierVars, ramp2node_dict, bucketVars, chainVars>>

\* The value of an attribute that delattr removed.
Deleted == [deleted |-> TRUE]

\* Lines 1183-1185: the temporary buckets are deleted.
Cleanup ==
    /\ pc = "cleanup"
    /\ svgEdges_pushback_dict' = Deleted
    /\ svgEdges_pull_dict' = Deleted
    /\ pc' = "pushpull_done"
    /\ UNCHANGED <<earlierVars, rampVars, chainVars>>

\* The nodes the push-back and pull paths of the gate run between; the gate
\* itself is node 1.
PathNodes == {12, 15, 20}

Fragments == PathNodes \X PathNodes

\* The edge ids of up to n path elements of one bucket, in document order:
\* import_edges drops an element whose edge id or mirror was read before.
FragmentLists(n) ==
    {f \in SeqUpTo(Fragments, n) :
        \A i, j \in 1..Len(f) : i # j => f[i] # f[j] /\ f[i] # ReverseEdge(f[j])}

\* One ramp's bucket: all categories created empty, 'Standard' and 'ICAO-D'
\* filled by import_edges; a gate no path element names has no bucket.
BucketOf(standard, icao_d) ==
    IF standard = <<>> /\ icao_d = <<>> THEN EmptyDict
    ELSE ("G1" :> [EmptyCategories EXCEPT !["Standard"] = standard, !["ICAO-D"] = icao_d])

\* The outgoing stand edges enhance_imports found for the gate.
StandEdgeChoices == {{<<1, 12>>}, {<<1, 12>>, <<1, 15>>}}

InitPush ==
    /\ RunwayIdle
    /\ IndexIdle
    /\ pc = "create_pushpull_data"
    /\ svg_nodes = Idle
    /\ node_iter = Idle
    /\ nodes_dict = Idle
    /\ node_count_intersections = Idle
    /\ svg_paths = Idle
    /\ edges_dict_unsorted = Idle
    /\ edge_ids4sort = Idle
    /\ edges_dict = Idle
    /\ svgID_to_edgeID_dict = Idle
    /\ nodes_to_check = Idle
    /\ None_nodes = Idle
    /\ ramp2node_dict = ("G1" :> 1)
    /\ \E stand \in StandEdgeChoices :
          ramp_dict = (1 :> [NewRamp("G1") EXCEPT !.edges_from_ramp = stand])
    /\ ramp_edges_set = Idle
    /\ \E standard \in {<<>>} \cup FragmentLists(MaxFrags),
          icao_d \in {<<>>, <<<<12, 15>>>>, <<<<20, 15>>>>} :
          svgEdges_pushback_dict = BucketOf(PoolOf(standard), PoolOf(icao_d))
    /\ \E standard \in {<<>>, <<<<15, 20>>>>, <<<<20, 12>>>>, <<<<20, 12>>, <<15, 12>>>>},
          icao_d \in {<<>>, <<<<15, 12>>>>} :
          svgEdges_pull_dict = BucketOf(PoolOf(standard), PoolOf(icao_d))
    /\ edges_pushback_dict = Idle
    /\ edges_pull_dict = Idle
    /\ ramp_iter = Idle
    /\ stype_iter = Idle
    /\ pb_path_lst = Idle
    /\ pull_path_lst = Idle
    /\ last_node = None
    /\ push_groups = Idle
    /\ pull_groups = Idle

NextPush ==
    \/ PushStart
    \/ PushNextRamp
    \/ PushNextType
    \/ PushChainStep
    \/ PushChainStore
    \/ PushTypesDone
    \/ PushRampsDone
    \/ PullNextRamp
    \/ PullNextType
    \/ PullChainStep
    \/ PullChainStore
    \/ PullTypesDone
    \/ PullRampsDone
    \/ GroupPaths
    \/ FillRampDict
    \/ Cleanup

SpecPush == InitPush /\ [][NextPush]_vars

\* create_pushpull_data has no step it can put off for ever: it runs until it
\* returns or raises.
LiveSpecPush == SpecPush /\ WF_vars(NextPush)

(***************************************************************************)
(* Properties of the push chain.                                           *)
(***************************************************************************)

Range(s) == {s[i] : i \in 1..Len(s)}

\* The while-loop of the push chain has ended and line 1088 is about to store
\* pb_path_lst.
ChainFinished ==
    /\ pc = "push_chain"
    /\ ~LoopContinues(svgEdges_pushback_dict[CurrentRamp][CurrentType], LastNode(pb_path_lst))

\* The fragments a pool held when the chain path was started from it, given
\* what is left of the pool: the fragments of the chain after the stand edge
\* and their mirrors went out of the pool, the others are still in it.
PoolAtStart(path, left) ==
    Range(left) \cup Range(Tail(path)) \cup {ReverseEdge(e) : e \in Range(Tail(path))}

\* The number N of fragments of that pool.
PoolSizeAtStart(path, left) == Len(left) + 2 * (Len(path) - 1)

\* The pools import_edges can build from the path elements behind the set S of
\* fragments: the elements in any document order, each drawn in either direction.
Arrangements(S) ==
    LET k == Cardinality({e \in S : e[1] <= e[2]})
    IN  {PoolOf(f) : f \in {g \in [1..k -> S] :
                               \A i, j \in 1..k :
                                   i # j => g[i] # g[j] /\ g[i] # ReverseEdge(g[j])}}

\* Somewhere along the assembly two different fragments of the pool start at
\* the end node of the chain.
RECURSIVE HasChoice(_, _)
HasChoice(path, pot_edges) ==
    LET C == {e \in Range(pot_edges) : MatchesStart(e, LastNode(path))}
    IN  IF C = {} THEN FALSE
        ELSE IF Cardinality(C) > 1 THEN TRUE
        ELSE LET e == CHOOSE x \in C : TRUE
             IN  HasChoice(Append(path, e), RemoveUsed(pot_edges, e))

\* C4: the assembly of a push chain terminates, and create_pushpull_data with
\* it: every round of the while-loop appends one fragment and takes it and its
\* mirror out of the pool, so that the pool shrinks by two each round and
\* neither is scanned again; the chain never holds a fragment twice and never
\* more edges than the N fragments the pool started with.
C4_PushChainTerminatesWithinPool ==
    /\ [][PushChainStep =>
            LET left == svgEdges_pushback_dict'[CurrentRamp][CurrentType]
                next_pb_edge == pb_path_lst'[Len(pb_path_lst')]
            IN  /\ Len(pb_path_lst') = Len(pb_path_lst) + 1
                /\ Len(left) = Len(svgEdges_pushback_dict[CurrentRamp][CurrentType]) - 2
                /\ next_pb_edge \notin Range(left)
                /\ ReverseEdge(next_pb_edge) \notin Range(left)]_vars
    /\ [](pc = "push_chain" =>
            LET left == svgEdges_pushback_dict[CurrentRamp][CurrentType]
                chain == Tail(pb_path_lst)
            IN  /\ Len(pb_path_lst) <= PoolSizeAtStart(pb_path_lst, left)
                /\ \A i, j \in 1..Len(chain) : i # j => chain[i] # chain[j]
                /\ \A i \in 1..Len(chain) :
                      chain[i] \notin Range(left) /\ ReverseEdge(chain[i]) \notin Range(left))
    /\ <>(pc \in {"pushpull_done", "aborted"})

\* A chain of three edges was assembled from a pool of four fragments and
\* create_pushpull_data has returned.
C4_Witness ==
    /\ pc = "pushpull_done"
    /\ \E g \in DOMAIN ramp_dict[1].pushback : Len(ramp_dict[1].pushback[g].edges_push) = 3

\* C5 as stated: whatever the order and the drawing direction of the path
\* elements behind a pool, the assembled chain is the same.
C5_SameChainForEveryOrder ==
    ChainFinished =>
        \A q \in Arrangements(PoolAtStart(pb_path_lst,
                                          svgEdges_pushback_dict[CurrentRamp][CurrentType])) :
            RunChain(<<StandEdge(CurrentRamp)>>, q) = pb_path_lst

\* C5, amended: the assembled chain is the same for every order of the pool
\* exactly when at no round of the assembly two different fragments start at
\* the end node of the chain; with two such fragments the one that comes first
\* in the pool is taken.
C5_SameChainIffNoChoice ==
    ChainFinished =>
        LET S == PoolAtStart(pb_path_lst, svgEdges_pushback_dict[CurrentRamp][CurrentType])
            stand == <<StandEdge(CurrentRamp)>>
        IN  (\A q \in Arrangements(S) : RunChain(stand, q) = pb_path_lst)
                <=> \A q \in Arrangements(S) : ~HasChoice(stand, q)

\* A chain of two fragments was assembled from a pool that never offered a choice.
C5_Witness ==
    /\ ChainFinished
    /\ Len(pb_path_lst) = 3
    /\ ~HasChoice(<<StandEdge(CurrentRamp)>>,
                  CHOOSE q \in Arrangements(PoolAtStart(pb_path_lst,
                                svgEdges_pushback_dict[CurrentRamp][CurrentType])) : TRUE)

\* The scenario of C6: the one stand edge of the gate ends at node 12 and the
\* Standard pool started as {(12,15),(15,12),(15,20),(20,15)}; the chains are
\* in the ramp registry and the buckets are not deleted yet.
C6_Scenario ==
    /\ pc = "cleanup"
    /\ ramp_dict[1].edges_from_ramp = {<<1, 12>>}
    /\ "G1" \in DOMAIN edges_pushback_dict
    /\ "Standard" \in DOMAIN edges_pushback_dict["G1"]
    /\ PoolAtStart(edges_pushback_dict["G1"]["Standard"],
                   svgEdges_pushback_dict["G1"]["Standard"])
          = {<<12, 15>>, <<15, 12>>, <<15, 20>>, <<20, 15>>}

\* The chain the ramp registry holds for the group that stands for sType.
StoredPushChains(sType) ==
    {ramp_dict[1].pushback[g].edges_push :
        g \in {h \in DOMAIN ramp_dict[1].pushback : push_groups["G1"][h] = sType}}

\* C6 as stated: in the scenario the chain stored for Standard is
\* [(12,15),(15,20)].
C6_ChainWithoutStandEdge ==
    C6_Scenario => StoredPushChains("Standard") = {<<<<12, 15>>, <<15, 20>>>>}

\* C6, amended: in the scenario the chain stored for Standard is the stand
\* edge followed by (12,15) and (15,20).
C6_ChainStartsWithStandEdge ==
    C6_Scenario => StoredPushChains("Standard") = {<<<<1, 12>>, <<12, 15>>, <<15, 20>>>>}

\* The scenario of C6 with the path elements read in the order (15,20), (12,15).
C6_Witness ==
    /\ C6_Scenario
    /\ pb_path_lst # Idle
    /\ \E g \in DOMAIN ramp_dict[1].pushback : ramp_dict[1].pushback[g].pb_type = "pushback"


(***************************************************************************)
(* create_runway_data (Layout.py 843-1044).  The layouts have one runway   *)
(* strip "09/27" whose centre line runs over the nodes 0, 1 and 2, with    *)
(* the threshold of "09" at node 0 and that of "27" at node 2, and up to   *)
(* MaxSidePaths paths between node 1 and the nodes 3, 4 and 5 beside the   *)
(* strip.  enhance_imports runs first, on the registries of the imports.   *)
(***************************************************************************)
MaxSidePaths == 3

\* `sub in edge_name` of lines 853, 856, 862 and 865 for the names of the layouts
EdgeNameHas(edge_name, sub) ==
    sub \in CASE edge_name = "crossing_09/27" -> {"crossing", "09/27", "09", "27"}
              [] edge_name = "ahead_09"       -> {"ahead", "09"}
              [] edge_name = "ahead_27"       -> {"ahead", "27"}
              [] OTHER                        -> {}

\* self.runways (lines 378-379)
RunwaysOf(strips) == UNION {Range(strips[s].rwy_dirs) : s \in DOMAIN strips}

\* Lines 853 and 862: the table an edge name belongs to ("none": neither).
SpecialKind(edge_name) ==
    IF edge_name = "None" THEN "none"
    ELSE IF EdgeNameHas(edge_name, "crossing") THEN "crossing"
    ELSE IF EdgeNameHas(edge_name, "ahead") THEN "ahead"
    ELSE "none"

\* Lines 854-858 and 863-867: the key of keys found in the name, "None" when
\* there is none.  No name of the layouts holds two keys of one table.
SpecialKey(edge_name, keys) ==
    IF \E k \in keys : EdgeNameHas(edge_name, k)
    THEN CHOOSE k \in keys : EdgeNameHas(edge_name, k)
    ELSE "None"

SpecialKeys(kind, strips) == IF kind = "crossing" THEN DOMAIN strips ELSE RunwaysOf(strips)

\* edges_special_RWY[kind] after the loop of lines 849-870
SpecialEdges(kind, edges, strips) ==
    LET named == {e \in DOMAIN edges : SpecialKind(edges[e].edge_name) = kind}
        keyOf(e) == SpecialKey(edges[e].edge_name, SpecialKeys(kind, strips))
    IN  [k \in {keyOf(e) : e \in named} |-> {e \in named : keyOf(e) = k}]

\* The assertions of lines 859 and 868 fail.
SpecialEdgesRaise(edges, strips) ==
    \E e \in DOMAIN edges :
        /\ SpecialKind(edges[e].edge_name) # "none"
        /\ SpecialKey(edges[e].edge_name,
                      SpecialKeys(SpecialKind(edges[e].edge_name), strips)) = "None"

\* math.degrees(math.atan2(y, x)) for the vectors along the axes and diagonals
Atan2Degrees(y, x) ==
    CASE y = 0 /\ x >= 0     -> 0
      [] y > 0 /\ x = y      -> 45
      [] y > 0 /\ x = 0      -> 90
      [] y > 0 /\ x = (-1) * y -> 135
      [] y = 0 /\ x < 0      -> 180
      [] y < 0 /\ x = y      -> -135
      [] y < 0 /\ x = 0      -> -90
      [] y < 0 /\ x = (-1) * y -> -45

\* _Layout_utilFuncs.calc_heading_btw_coords
calc_heading_btw_coords(p1_xy, p2_xy, y_inverted) ==
    LET x == p2_xy[1] - p1_xy[1]
        y0 == p2_xy[2] - p1_xy[2]
        y == IF y_inverted THEN (-1) * y0 ELSE y0
    IN  Atan2Degrees(y, x) % 360

\* _Layout_utilFuncs.convert_heading_to_bearing; the headings are whole
\* degrees, which rounding to one decimal leaves alone.
convert_heading_to_bearing(heading) == (90 - heading) % 360

Abs(x) == IF x < 0 THEN (-1) * x ELSE x

\* np.allclose(seg_headings, heading, rtol=0, atol=1) of line 910
HeadingMatches(seg_headings, heading) ==
    \A i \in 1..Len(seg_headings) :
        \A j \in 1..2 : Abs(seg_headings[i][j] - heading) <= 1

\* The orders in which a loop can visit the members of a Python set or of a
\* list made from one.
Orderings(S) ==
    {f \in [1..Cardinality(S) -> S] : \A i, j \in 1..Cardinality(S) : i # j => f[i] # f[j]}

EmptyStopbars == [node_ids |-> {}, edge_ids |-> {}]

SeedKinds == {"crossing", "ahead", "behind"}

NextSeedKind(kind) == IF kind = "crossing" THEN "ahead" ELSE "behind"

CurrentStrip == Head(strip_iter)

CurrentVals == runways_dict[CurrentStrip]

CurrentDir == CurrentVals.rwy_dirs[dir_idx]

\* Variant of OppositeDir: the direction at hand itself.
SameDir == CurrentVals.rwy_dirs[dir_idx]

\* vals['rwy_dirs'][idx-1] of line 957, idx counted from 0 there
OppositeDir == CurrentVals.rwy_dirs[((dir_idx - 2) % Len(CurrentVals.rwy_dirs)) + 1]

\* dict.update: the entries of new replace those of d
Update(d, new) == new @@ d

\* Variant of SeedKey: both go-around searches look up the first direction.
SeedKeyFirstDir(kind) ==
    IF kind = "crossing" THEN CurrentStrip ELSE CurrentVals.rwy_dirs[1]

\* The key of the seed table the search of kind looks up (lines 976, 996, 1015).
SeedKey(kind) ==
    IF kind = "crossing" THEN CurrentStrip
    ELSE IF kind = "ahead" THEN CurrentVals.rwy_dirs[1]
    ELSE CurrentVals.rwy_dirs[2]

SeedTable(kind) ==
    IF kind = "crossing" THEN edges_special_RWY.crossing ELSE edges_special_RWY.ahead

\* Variant of RemainingRaises: the closing assertion never fails.
RemainingNeverRaises(remaining) == FALSE

\* The assertion of line 1031 fails.
RemainingRaises(remaining) == remaining # {}

rwyFrame == <<pushVars, indexVars, svg_nodes, node_iter, node_count_intersections, svg_paths,
              edges_dict_unsorted, edge_ids4sort, svgID_to_edgeID_dict, checkVars, rampVars>>


\* Lines 848-870; create_runway_data is called when enhance_imports has
\* returned (lines 100-101).
RunwayStart ==
    /\ pc = "enhance_done"
    /\ edges_special_RWY' =
          [crossing |-> SpecialEdges("crossing", edges_dict, runways_dict),
           ahead    |-> SpecialEdges("ahead", edges_dict, runways_dict)]
    /\ IF SpecialEdgesRaise(edges_dict, runways_dict)
       THEN pc' = "aborted" /\ UNCHANGED strip_iter
       ELSE pc' = "strips" /\ strip_iter' = <<"09/27">>
    /\ UNCHANGED <<rwyFrame, nodes_dict, edges_dict, runways_dict, dir_idx, stopbars_io,
                   edge_ids_exits, edge_ids_entries, walkVars, exitVars, seedVars>>

\* Lines 873-887: the next strip of the loop over runways_dict.
StripStart ==
    /\ pc = "strips"
    /\ strip_iter # <<>>
    /\ LET vals == CurrentVals
           rwy_dir1 == vals.rwy_dirs[1]
           rwy_dir2 == vals.rwy_dirs[2]
           dir1_heading == calc_heading_btw_coords(vals[rwy_dir1].pos_start,
                                                   vals[rwy_dir2].pos_start, TRUE)
           dir2_heading == calc_heading_btw_coords(vals[rwy_dir2].pos_start,
                                                   vals[rwy_dir1].pos_start, TRUE)
       IN  runways_dict' =
              [runways_dict EXCEPT ![CurrentStrip] =
                  (rwy_dir1 :> Update(vals[rwy_dir1], [heading |-> dir1_heading]))
                  @@ (rwy_dir2 :> Update(vals[rwy_dir2], [heading |-> dir2_heading]))
                  @@ Update(vals, [rwy_bearings |->
                                      <<convert_heading_to_bearing(dir1_heading),
                                        convert_heading_to_bearing(dir2_heading)>>])]
    /\ stopbars_io' = {}
    /\ edge_ids_exits' = {}
    /\ edge_ids_entries' = {}
    /\ dir_idx' = 1
    /\ pc' = "dir"
    /\ UNCHANGED <<rwyFrame, nodes_dict, edges_dict, edges_special_RWY, strip_iter,
                   walkVars, exitVars, seedVars>>

\* Variant of ThresholdRaises: only a threshold without outgoing edge is fatal.
ThresholdRaisesWithoutEdge(nodes, node_start) ==
    \/ node_start \notin DOMAIN nodes
    \/ nodes[node_start].edges_from_node = {}

\* Lines 892-896: the lookup of the threshold node fails, or the assertion on
\* the number of edges that leave it.
ThresholdRaises(nodes, node_start) ==
    \/ node_start \notin DOMAIN nodes
    \/ Cardinality(nodes[node_start].edges_from_node) # 1

\* Lines 888-903: the next direction of the strip.  Line 893 raises KeyError
\* when no node lies at the threshold, line 894 asserts one outgoing edge.
DirStart ==
    /\ pc = "dir"
    /\ dir_idx <= Len(CurrentVals.rwy_dirs)
    /\ LET rwy_node_start == CurrentVals[CurrentDir].node_start
       IN  IF ThresholdRaises(nodes_dict, rwy_node_start)
           THEN pc' = "aborted" /\ UNCHANGED walkVars
           ELSE LET edges_from_start == nodes_dict[rwy_node_start].edges_from_node
                    first == CHOOSE e \in edges_from_start : TRUE
                IN  /\ edge_now' = first
                    /\ rwy_nodes' = <<rwy_node_start, first[2]>>
                    /\ rwy_edges' = <<first>>
                    /\ rwy_length' = 0
                    /\ rwy_exitEdges' = EmptyDict
                    /\ rwy_rev_entryEdges' = EmptyDict
                    /\ stopbars_exits' = EmptyStopbars
                    /\ next_iter' = {}
                    /\ pc' = "walk"
    /\ UNCHANGED <<rwyFrame, nodes_dict, edges_dict, stripVars, exitVars, seedVars>>

\* Lines 905-908: one pass of `while edge_now` up to the loop over next_edges.
WalkEdge ==
    /\ pc = "walk"
    /\ edge_now # NoEdge
    /\ rwy_length' = rwy_length + edges_dict[edge_now].length
    /\ next_iter' = edges_dict[edge_now].next_edges
    /\ edge_now' = NoEdge
    /\ pc' = "walk_next"
    /\ UNCHANGED <<rwyFrame, nodes_dict, edges_dict, stripVars, rwy_nodes, rwy_edges,
                   rwy_exitEdges, rwy_rev_entryEdges, stopbars_exits, exitVars, seedVars>>

\* Lines 909-916: a continuation whose headings match the direction's.  The
\* list of line 907 is made from a set, so the loop may visit the
\* continuations in any order.
WalkMatch ==
    /\ pc = "walk_next"
    /\ \E edge_id \in next_iter :
          /\ HeadingMatches(edges_dict[edge_id].seg_headings, CurrentVals[CurrentDir].heading)
          /\ rwy_edges' = Append(rwy_edges, edge_id)
          /\ rwy_nodes' = Append(rwy_nodes, edge_id[2])
          /\ nodes_dict' = [nodes_dict EXCEPT ![edge_id[2]].node_type = "RWY_intersection",
                                              ![edge_id[2]].node_name = CurrentDir]
          /\ edge_now' = edge_id
          /\ next_iter' = next_iter \ {edge_id}
    /\ UNCHANGED <<rwyFrame, pc, edges_dict, stripVars, rwy_length, rwy_exitEdges,
                   rwy_rev_entryEdges, stopbars_exits, exitVars, seedVars>>

\* Lines 917-923: a continuation that leaves the runway.
ExitStart ==
    /\ pc = "walk_next"
    /\ \E edge_id \in next_iter :
          /\ ~HeadingMatches(edges_dict[edge_id].seg_headings, CurrentVals[CurrentDir].heading)
          /\ exit_edge' = edge_id
          /\ temp_edges' = {edge_id}
          /\ next_iter' = next_iter \ {edge_id}
    /\ exit_path' = <<>>
    /\ stopbar_nodeIDs' = <<>>
    /\ stopbar_names' = <<>>
    /\ is_RET' = FALSE
    /\ pc' = "exit_search"
    /\ UNCHANGED <<rwyFrame, nodes_dict, edges_dict, stripVars, edge_now, rwy_nodes, rwy_edges,
                   rwy_length, rwy_exitEdges, rwy_rev_entryEdges, stopbars_exits, seedVars>>

\* Bound on the length of exit_path that is kept.  The list is read as a set
\* only (line 936), and a search that repeats no edge stays below the bound.
MaxExitPath == 6

\* exit_path.append(temp_edges[0]) of line 938, up to the bound.
ExitPathAppend(path, edge) ==
    IF Len(path) < MaxExitPath THEN Append(path, edge) ELSE path

\* Lines 924-941: one pass of `while not stopbar_nodeIDs`.  ord is the order
\* in which the loop of line 925 meets the edges that end at a Stopbar.
ExitScan ==
    /\ pc = "exit_search"
    /\ LET found == {t \in temp_edges : nodes_dict[t[2]].node_type = "Stopbar"}
       IN  \E ord \in Orderings(found) :
              LET ends == {t[2] : t \in found}
                  path == exit_path \o ord
              IN  /\ stopbar_nodeIDs' = [i \in 1..Len(ord) |-> ord[i][2]]
                  /\ stopbar_names' = [i \in 1..Len(ord) |-> nodes_dict[ord[i][2]].node_name]
                  /\ is_RET' = IF found = {} THEN is_RET
                               ELSE ord[Len(ord)][2] \in CurrentVals.stopbars_RET
                  /\ stopbars_exits' =
                        IF found = {} THEN stopbars_exits
                        ELSE [node_ids |-> stopbars_exits.node_ids \cup ends,
                              edge_ids |-> stopbars_exits.edge_ids \cup Range(path)]
                  /\ stopbars_io' = stopbars_io \cup ends
                  /\ IF Cardinality(temp_edges) = 1
                     THEN LET only == CHOOSE t \in temp_edges : TRUE
                          IN  /\ exit_path' = ExitPathAppend(path, only)
                              /\ temp_edges' = edges_dict[only].next_edges
                              /\ pc' = IF found = {} THEN "exit_search" ELSE "exit_end"
                     ELSE /\ exit_path' = path
                          /\ temp_edges' = temp_edges
                          /\ pc' = "exit_end"
    /\ UNCHANGED <<rwyFrame, nodes_dict, edges_dict, runways_dict, edges_special_RWY,
                   strip_iter, dir_idx, edge_ids_exits, edge_ids_entries, edge_now, next_iter,
                   rwy_nodes, rwy_edges, rwy_length, rwy_exitEdges, rwy_rev_entryEdges,
                   exit_edge, seedVars>>

\* Lines 943-951: the exit and the entry of the opposite direction are
\* recorded unless the search found no stopbar.
ExitEnd ==
    /\ pc = "exit_end"
    /\ IF stopbar_nodeIDs = <<>>
       THEN UNCHANGED <<rwy_exitEdges, rwy_rev_entryEdges>>
       ELSE /\ rwy_exitEdges' =
                  Update(rwy_exitEdges,
                         exit_edge :> [rwy_length |-> rwy_length, RET |-> is_RET,
                                       stopbar_nodeIDs |-> stopbar_nodeIDs,
                                       stopbar_names |-> stopbar_names])
            /\ rwy_rev_entryEdges' =
                  Update(rwy_rev_entryEdges,
                         ReverseEdge(exit_edge) :> [rwy_length |-> rwy_length,
                                                    stopbar_nodeIDs |-> stopbar_nodeIDs,
                                                    stopbar_names |-> stopbar_names])
    /\ pc' = "walk_next"
    /\ UNCHANGED <<rwyFrame, nodes_dict, edges_dict, stripVars, edge_now, next_iter, rwy_nodes,
                   rwy_edges, rwy_length, stopbars_exits, exitVars, seedVars>>

\* The loop of line 909 has visited every continuation.
WalkNextDone ==
    /\ pc = "walk_next"
    /\ next_iter = {}
    /\ pc' = "walk"
    /\ UNCHANGED <<rwyFrame, nodes_dict, edges_dict, stripVars, walkVars, exitVars, seedVars>>

\* Lines 953-960: the walk of the direction is over.
WalkEnd ==
    /\ pc = "walk"
    /\ edge_now = NoEdge
    /\ LET vals == CurrentVals
           stopbars_rev_entryEdges == {ReverseEdge(e) : e \in stopbars_exits.edge_ids}
           stopbars_rev_entries == [node_ids |-> stopbars_exits.node_ids,
                                    edge_ids |-> stopbars_rev_entryEdges]
           own == Update(vals, CurrentDir :>
                            Update(vals[CurrentDir],
                                   [nodes |-> rwy_nodes, edges |-> rwy_edges,
                                    exits |-> rwy_exitEdges,
                                    stopbars_exits |-> stopbars_exits]))
       IN  /\ runways_dict' =
                 [runways_dict EXCEPT ![CurrentStrip] =
                     Update(own, OppositeDir :>
                               Update(own[OppositeDir],
                                      [entries |-> rwy_rev_entryEdges,
                                       stopbars_entries |-> stopbars_rev_entries]))]
           /\ edge_ids_exits' = edge_ids_exits \cup stopbars_exits.edge_ids
           /\ edge_ids_entries' = edge_ids_entries \cup stopbars_rev_entryEdges
    /\ dir_idx' = dir_idx + 1
    /\ pc' = "dir"
    /\ UNCHANGED <<rwyFrame, nodes_dict, edges_dict, edges_special_RWY, strip_iter,
                   stopbars_io, walkVars, exitVars, seedVars>>


\* Lines 963-975: both directions are walked.
StripInfo ==
    /\ pc = "dir"
    /\ dir_idx > Len(CurrentVals.rwy_dirs)
    /\ LET vals == CurrentVals
           rwy_dir1 == vals.rwy_dirs[1]
           rwy_dir2 == vals.rwy_dirs[2]
       IN  runways_dict' =
              [runways_dict EXCEPT ![CurrentStrip] =
                  Update(vals,
                         [rwy_nodes |-> Range(vals[rwy_dir1].nodes) \cup Range(vals[rwy_dir2].nodes),
                          rwy_edges |-> Range(vals[rwy_dir1].edges) \cup Range(vals[rwy_dir2].edges)])]
    /\ stopbars_remaining' = CurrentVals.stopbars \ stopbars_io
    /\ node_ids' = [k \in SeedKinds |-> {}]
    /\ edge_ids' = [k \in SeedKinds |-> {}]
    /\ seed_kind' = "crossing"
    /\ seed_iter' = {}
    /\ eids_to_check' = {}
    /\ pc' = "seeds"
    /\ UNCHANGED <<rwyFrame, nodes_dict, edges_dict, edges_special_RWY, strip_iter, dir_idx,
                   stopbars_io, edge_ids_exits, edge_ids_entries, walkVars, exitVars>>

\* Lines 976-978, 996-998 and 1015-1017: the search of seed_kind begins, or
\* is skipped when the table has no seed under its key.
SeedStart ==
    /\ pc = "seeds"
    /\ IF SeedKey(seed_kind) \in DOMAIN SeedTable(seed_kind)
       THEN /\ edge_ids' = [edge_ids EXCEPT ![seed_kind] = SeedTable(seed_kind)[SeedKey(seed_kind)]]
            /\ seed_iter' = SeedTable(seed_kind)[SeedKey(seed_kind)]
            /\ pc' = "seed_edges"
            /\ UNCHANGED seed_kind
       ELSE /\ pc' = IF seed_kind = "behind" THEN "strip_end" ELSE "seeds"
            /\ seed_kind' = NextSeedKind(seed_kind)
            /\ UNCHANGED <<edge_ids, seed_iter>>
    /\ UNCHANGED <<rwyFrame, nodes_dict, edges_dict, stripVars, walkVars, exitVars,
                   stopbars_remaining, eids_to_check, node_ids>>

\* Lines 979-980, 999-1000 and 1018-1019: the next seed edge.
SeedEdge ==
    /\ pc = "seed_edges"
    /\ eids_to_check = {}
    /\ \E edge_id \in seed_iter :
          /\ eids_to_check' = edges_dict[edge_id].next_edges
          /\ seed_iter' = seed_iter \ {edge_id}
    /\ UNCHANGED <<rwyFrame, pc, nodes_dict, edges_dict, stripVars, walkVars, exitVars,
                   stopbars_remaining, seed_kind, node_ids, edge_ids>>

\* Lines 981-988, 1001-1008 and 1020-1027: one pass of `while eids_to_check`;
\* set.pop() takes any member.
SeedPop ==
    /\ pc = "seed_edges"
    /\ \E eid_to_check \in eids_to_check :
          /\ edge_ids' = [edge_ids EXCEPT ![seed_kind] =
                             @ \cup {eid_to_check, ReverseEdge(eid_to_check)}]
          /\ IF nodes_dict[eid_to_check[2]].node_type # "Stopbar"
             THEN /\ eids_to_check' = (eids_to_check \ {eid_to_check})
                                         \cup edges_dict[eid_to_check].next_edges
                  /\ UNCHANGED node_ids
             ELSE /\ eids_to_check' = eids_to_check \ {eid_to_check}
                  /\ node_ids' = [node_ids EXCEPT ![seed_kind] = @ \cup {eid_to_check[2]}]
    /\ UNCHANGED <<rwyFrame, pc, nodes_dict, edges_dict, stripVars, walkVars, exitVars,
                   stopbars_remaining, seed_kind, seed_iter>>

\* Lines 989-991, 1009-1010 and 1028-1029: every seed of the search is done.
SeedEnd ==
    /\ pc = "seed_edges"
    /\ seed_iter = {}
    /\ eids_to_check = {}
    /\ stopbars_remaining' = stopbars_remaining \ node_ids[seed_kind]
    /\ edge_ids' = [edge_ids EXCEPT ![seed_kind] =
                       IF seed_kind = "crossing"
                       THEN (@ \ edge_ids_exits) \ edge_ids_entries
                       ELSE @ \ edge_ids_exits]
    /\ pc' = IF seed_kind = "behind" THEN "strip_end" ELSE "seeds"
    /\ seed_kind' = NextSeedKind(seed_kind)
    /\ UNCHANGED <<rwyFrame, nodes_dict, edges_dict, stripVars, walkVars, exitVars,
                   seed_iter, eids_to_check, node_ids>>

\* The dicts of lines 992, 1011 and 1030
StopbarsOf(kind) == [node_ids |-> node_ids[kind], edge_ids |-> edge_ids[kind]]

\* Lines 1031-1033.
StripEnd ==
    /\ pc = "strip_end"
    /\ IF RemainingRaises(stopbars_remaining)
       THEN /\ pc' = "aborted"
            /\ UNCHANGED <<runways_dict, strip_iter, dir_idx>>
       ELSE /\ LET vals == CurrentVals
                   rwy_dir1 == vals.rwy_dirs[1]
                   rwy_dir2 == vals.rwy_dirs[2]
               IN  runways_dict' =
                      [runways_dict EXCEPT ![CurrentStrip] =
                          (rwy_dir1 :> Update(vals[rwy_dir1],
                                              [stopbars_crossings |-> StopbarsOf("crossing"),
                                               stopbars_ahead     |-> StopbarsOf("ahead"),
                                               stopbars_behind    |-> StopbarsOf("behind")]))
                          @@ (rwy_dir2 :> Update(vals[rwy_dir2],
                                              [stopbars_crossings |-> StopbarsOf("crossing"),
                                               stopbars_ahead     |-> StopbarsOf("behind"),
                                               stopbars_behind    |-> StopbarsOf("ahead")]))
                          @@ vals]
            /\ strip_iter' = Tail(strip_iter)
            /\ dir_idx' = 0
            /\ pc' = "strips"
    /\ UNCHANGED <<rwyFrame, nodes_dict, edges_dict, edges_special_RWY, stopbars_io,
                   edge_ids_exits, edge_ids_entries, walkVars, exitVars, seedVars>>

\* Lines 1035-1044: every strip is done.
RelabelRunwayEdges ==
    /\ pc = "strips"
    /\ strip_iter = <<>>
    /\ LET rwy_edges_set == UNION {runways_dict[rwy_name].rwy_edges :
                                     rwy_name \in DOMAIN runways_dict}
       IN  edges_dict' = [e \in DOMAIN edges_dict |->
                             IF e \in rwy_edges_set
                             THEN [edges_dict[e] EXCEPT !.edge_type = "RWY_edge"]
                             ELSE edges_dict[e]]
    /\ pc' = "runway_done"
    /\ UNCHANGED <<rwyFrame, nodes_dict, rwyVars>>

\* The nodes of the layouts: the centre line and the nodes beside it.
RwyPos(k) == CASE k = 0 -> <<1000, 500>>
               [] k = 1 -> <<1100, 500>>
               [] k = 2 -> <<1200, 500>>
               [] k = 3 -> <<1100, 400>>
               [] k = 4 -> <<1100, 300>>
               [] k = 5 -> <<1100, 600>>

SideNodes == {3, 4, 5}

\* What import_nodes made of a node beside the strip: a taxiway intersection,
\* a holding point named in the strip's stopbar list ("own"), or a holding
\* point that is not ("other").
NodeKinds == {"TWY_intersection", "own", "other"}

\* The kinds of the side nodes: only node 3 may be a holding point of another
\* strip.
KindChoices == {kinds \in [SideNodes -> NodeKinds] : \A k \in SideNodes \ {3} : kinds[k] # "other"}

StopbarName(k) == CASE k = 3 -> "S3" [] k = 4 -> "S4" [] k = 5 -> "S5"

\* Lines 225-238: every holding point of a runway is a Stopbar node.
RwyNode(k, kind) ==
    IF kind = "TWY_intersection" THEN NodeAt(k, RwyPos(k))
    ELSE [NodeAt(k, RwyPos(k)) EXCEPT !.node_type = "Stopbar", !.node_name = StopbarName(k)]

RwyNodes(kinds) ==
    [k \in 0..5 |-> IF k \in SideNodes THEN RwyNode(k, kinds[k])
                    ELSE NodeAt(k, RwyPos(k))]

\* Lines 367-376: the node at the position of a threshold, None without one.
NodeStart(nodes, pos_start) ==
    IF \E n \in DOMAIN nodes : nodes[n].pos_xy = pos_start
    THEN CHOOSE n \in DOMAIN nodes :
            /\ nodes[n].pos_xy = pos_start
            /\ \A m \in DOMAIN nodes : nodes[m].pos_xy = pos_start => n <= m
    ELSE None

\* Lines 308-380 for the strip "09/27": stopbars holds the holding points the
\* strip's stopbar list names.
RunwaysDict(nodes, kinds) ==
    "09/27" :>
        (("09" :> [pos_start |-> RwyPos(0), node_start |-> NodeStart(nodes, RwyPos(0))])
         @@ ("27" :> [pos_start |-> RwyPos(2), node_start |-> NodeStart(nodes, RwyPos(2))])
         @@ [rwy_dirs     |-> <<"09", "27">>,
             rwy_bearings |-> <<>>,
             stopbars     |-> {k \in SideNodes : kinds[k] = "own"},
             stopbars_RET |-> {}])

\* The paths beside the strip: bounds, heading and the names a path may have.
SidePaths ==
    << [b1 |-> 1, b2 |-> 3, h |-> 90,  names |-> {"A_TUD", "crossing_09/27_TUD"}],
       [b1 |-> 3, b2 |-> 4, h |-> 90,  names |-> {"A_TUD", "ahead_09_TUD"}],
       [b1 |-> 1, b2 |-> 5, h |-> 270, names |-> {"A_TUD", "ahead_27_TUD"}],
       [b1 |-> 3, b2 |-> 5, h |-> 180, names |-> {"A_TUD"}],
       [b1 |-> 0, b2 |-> 5, h |-> 270, names |-> {"A_TUD"}],
       [b1 |-> 2, b2 |-> 4, h |-> 90,  names |-> {"A_TUD"}] >>

\* The heading of the path from node 1 to node 2 on the centre line.
CentreHeadings == {0, 2}

RwyPath(b1, b2, h, name) ==
    PathElement(<<"intersection_node", b1>>, <<"intersection_node", b2>>, 0, <<Line(h)>>, name)

RECURSIVE SideDocument(_, _)
SideDocument(choice, i) ==
    IF i > Len(SidePaths) THEN <<>>
    ELSE IF choice[i] = "absent" THEN SideDocument(choice, i + 1)
    ELSE << RwyPath(SidePaths[i].b1, SidePaths[i].b2, SidePaths[i].h, choice[i]) >>
            \o SideDocument(choice, i + 1)

SideChoices ==
    {c \in [1..Len(SidePaths) ->
                {"absent"} \cup UNION {SidePaths[i].names : i \in 1..Len(SidePaths)}] :
        /\ \A i \in 1..Len(SidePaths) : c[i] # "absent" => c[i] \in SidePaths[i].names
        /\ Cardinality({i \in 1..Len(SidePaths) : c[i] # "absent"}) <= MaxSidePaths}

RwyDocument(choice, h) ==
    << RwyPath(0, 1, 0, "Linear Feature"), RwyPath(1, 2, h, "Linear Feature") >>
    \o SideDocument(choice, 1)

\* A layout with a turning loop beside the strip: the exit from node 1 to
\* node 3 leads into the loop 3 - 4 - 5 - 3, which is left at node 3 by a
\* turn of 160 degrees only.
LoopDocument(h) ==
    << RwyPath(0, 1, 0, "Linear Feature"), RwyPath(1, 2, h, "Linear Feature"),
       RwyPath(1, 3, 350, "A_TUD"), RwyPath(3, 4, 90, "A_TUD"),
       RwyPath(4, 5, 210, "A_TUD"), RwyPath(5, 3, 330, "A_TUD") >>

\* A layout with a fork at node 1: the path to node 3 leaves the centre line
\* with the heading of direction 09.
ForkDocument(h) ==
    << RwyPath(0, 1, 0, "Linear Feature"), RwyPath(1, 2, h, "Linear Feature"),
       RwyPath(1, 3, 0, "A_TUD") >>

\* The documents of the layouts.
RwyDocuments ==
    {RwyDocument(choice, h) : choice \in SideChoices, h \in CentreHeadings}
    \cup {LoopDocument(h) : h \in CentreHeadings}
    \cup {ForkDocument(h) : h \in CentreHeadings}

InitRunway ==
    /\ PushIdle
    /\ IndexIdle
    /\ pc = "enhance_imports"
    /\ svg_nodes = Idle
    /\ node_iter = Idle
    /\ node_count_intersections = 6
    /\ svg_paths = <<>>
    /\ edges_dict_unsorted = Idle
    /\ edge_ids4sort = Idle
    /\ nodes_to_check = Idle
    /\ None_nodes = Idle
    /\ ramp2node_dict = EmptyDict
    /\ ramp_dict = EmptyDict
    /\ ramp_edges_set = {}
    /\ \E document \in RwyDocuments, kinds \in KindChoices :
          LET imp == ImportedEdges(document, node_count_intersections)
          IN  /\ imp.ok
              /\ nodes_dict = RwyNodes(kinds)
              /\ edges_dict = imp.edges_dict
              /\ svgID_to_edgeID_dict = imp.svgID_to_edgeID_dict
              /\ runways_dict = RunwaysDict(RwyNodes(kinds), kinds)
    /\ edges_special_RWY = [crossing |-> EmptyDict, ahead |-> EmptyDict]
    /\ strip_iter = <<>>
    /\ dir_idx = 0
    /\ stopbars_io = {}
    /\ edge_ids_exits = {}
    /\ edge_ids_entries = {}
    /\ edge_now = NoEdge
    /\ next_iter = {}
    /\ rwy_nodes = <<>>
    /\ rwy_edges = <<>>
    /\ rwy_length = 0
    /\ rwy_exitEdges = EmptyDict
    /\ rwy_rev_entryEdges = EmptyDict
    /\ stopbars_exits = EmptyStopbars
    /\ exit_edge = NoEdge
    /\ exit_path = <<>>
    /\ stopbar_nodeIDs = <<>>
    /\ stopbar_names = <<>>
    /\ is_RET = FALSE
    /\ temp_edges = {}
    /\ stopbars_remaining = {}
    /\ seed_kind = "none"
    /\ seed_iter = {}
    /\ eids_to_check = {}
    /\ node_ids = [k \in SeedKinds |-> {}]
    /\ edge_ids = [k \in SeedKinds |-> {}]

NextRunway ==
    \/ EnhanceAdjacency
    \/ EnhanceRampEdges
    \/ EnhanceServiceRoads
    \/ EnhanceNextEdges
    \/ EnhanceDirSwitch
    \/ RunwayStart
    \/ StripStart
    \/ DirStart
    \/ WalkEdge
    \/ WalkMatch
    \/ ExitStart
    \/ ExitScan
    \/ ExitEnd
    \/ WalkNextDone
    \/ WalkEnd
    \/ StripInfo
    \/ SeedStart
    \/ SeedEdge
    \/ SeedPop
    \/ SeedEnd
    \/ StripEnd
    \/ RelabelRunwayEdges

SpecRunway == InitRunway /\ [][NextRunway]_vars


(***************************************************************************)
(* Claims about create_runway_data.                                        *)
(***************************************************************************)
RunwayCompleted == pc = "runway_done"

\* The stopbar categories recorded for strip s, read from its first direction.
ExitEntryStopbars(s) ==
    LET vals == runways_dict[s]
    IN  UNION {vals[vals.rwy_dirs[i]].stopbars_exits.node_ids
                  \cup vals[vals.rwy_dirs[i]].stopbars_entries.node_ids : i \in 1..2}

CrossingStopbars(s) == runways_dict[s][runways_dict[s].rwy_dirs[1]].stopbars_crossings.node_ids

AheadStopbars(s) == runways_dict[s][runways_dict[s].rwy_dirs[1]].stopbars_ahead.node_ids

BehindStopbars(s) == runways_dict[s][runways_dict[s].rwy_dirs[1]].stopbars_behind.node_ids

StopbarCategories(s) ==
    <<ExitEntryStopbars(s), CrossingStopbars(s), AheadStopbars(s), BehindStopbars(s)>>

\* C3: for every strip for which create_runway_data completes, the exit/entry,
\* crossing, ahead and behind stopbars are pairwise disjoint and their union
\* is exactly the strip's configured stopbar set.
C3_StopbarCategoriesPartition ==
    RunwayCompleted =>
        \A s \in DOMAIN runways_dict :
            /\ \A i, j \in 1..4 :
                  i # j => StopbarCategories(s)[i] \cap StopbarCategories(s)[j] = {}
            /\ UNION Range(StopbarCategories(s)) = runways_dict[s].stopbars


(***************************************************************************)
(* import_edges with the side tables it fills (Layout.py 395-685): the     *)
(* svg-id index, the access sets of the remote holding points and the      *)
(* push-back, pull and entry buckets.  The documents name the gate G1 and  *)
(* the remote holding point RH1, which import_nodes has registered at      *)
(* node 0.                                                                 *)
(***************************************************************************)
BucketNames == {"Linear Feature", "G1_pb_TUD", "pull_G1_TUD", "G1_entry_TUD",
                "RH1_entry_exit_TUD"}

BucketBounds == {<<"intersection_node", 0>>, <<"termination_node", 0>>}

\* Lines 498-500 and 518-520: the edge and its mirror are added to the
\* bucket of the gate, which is created with all categories empty.
BucketAdd(bucket, gate, sType, edge_id) ==
    LET created == IF gate \in DOMAIN bucket THEN bucket
                   ELSE (gate :> EmptyCategories) @@ bucket
    IN  [created EXCEPT ![gate][sType] = @ \o <<edge_id, ReverseEdge(edge_id)>>]

\* Lines 466-471: the access set of the remote holding point the name begins with.
AccessAdd(remhold, name2node, svg_name, edge_id) ==
    IF SvgNameHas(svg_name, "entry_exit")
    THEN [remhold EXCEPT ![name2node[FirstToken(svg_name)]].edge_ids_access =
                             @ \cup {edge_id, ReverseEdge(edge_id)}]
    ELSE remhold

\* Lines 474-500: a push-back name without pb@ adds to 'Standard' of its gate.
PushBucketAdd(bucket, svg_name, edge_id) ==
    IF SvgNameHas(svg_name, "pb") /\ ~SvgNameHas(svg_name, "pull")
    THEN BucketAdd(bucket, FirstToken(svg_name), "Standard", edge_id)
    ELSE bucket

\* Lines 474-483 and 502-520: a pull name without pull@ adds to 'Standard' of
\* the gate named by its second token.
PullBucketAdd(bucket, svg_name, edge_id) ==
    IF SvgNameHas(svg_name, "pull")
    THEN BucketAdd(bucket, "G1", "Standard", edge_id)
    ELSE bucket

\* Lines 523-528: the svg id is appended to the entries of the first token.
EntryAdd(entries, svg_name, svg_id) ==
    IF SvgNameHas(svg_name, "entry")
    THEN IF FirstToken(svg_name) \in DOMAIN entries
         THEN [entries EXCEPT ![FirstToken(svg_name)] = Append(@, svg_id)]
         ELSE (FirstToken(svg_name) :> <<svg_id>>) @@ entries
    ELSE entries

\* One pass of the loop of lines 406-674 with its side tables.
ImportElement ==
    /\ pc = "import_edges"
    /\ svg_paths # <<>>
    /\ LET child == Head(svg_paths)
           svg_name == child.edgeNameFromXPlane
           edge_id == <<NodeOfBound(child.bound1, node_count_intersections),
                        NodeOfBound(child.bound2, node_count_intersections)>>
           st == ImportPath([unsorted |-> edges_dict_unsorted, ids4sort |-> edge_ids4sort,
                             svgID_to_edgeID |-> svgID_to_edgeID_dict],
                            child, node_count_intersections)
       IN  IF IsDuplicate(edge_id, edges_dict_unsorted)
           THEN /\ edge_warnings' = edge_warnings \cup {<<edge_id, child.id>>}
                /\ UNCHANGED <<edges_dict_unsorted, edge_ids4sort, svgID_to_edgeID_dict,
                               remhold_dict, svgEdges_pushback_dict, svgEdges_pull_dict,
                               svgEdges_entries_dict>>
           ELSE /\ edges_dict_unsorted' = st.unsorted
                /\ edge_ids4sort' = st.ids4sort
                /\ svgID_to_edgeID_dict' = st.svgID_to_edgeID
                /\ remhold_dict' = AccessAdd(remhold_dict, name2node_dict, svg_name, edge_id)
                /\ svgEdges_pushback_dict' =
                      PushBucketAdd(svgEdges_pushback_dict, svg_name, edge_id)
                /\ svgEdges_pull_dict' = PullBucketAdd(svgEdges_pull_dict, svg_name, edge_id)
                /\ svgEdges_entries_dict' =
                      EntryAdd(svgEdges_entries_dict, svg_name, child.id)
                /\ UNCHANGED edge_warnings
    /\ svg_paths' = Tail(svg_paths)
    /\ UNCHANGED <<pc, nodeVars, edges_dict, checkVars, rampVars, chainVars, rwyVars,
                   name2node_dict, kind2node_dict, name_iter, nx_graph>>

\* Lines 679-685 after the loop with its side tables.
SortElements ==
    /\ pc = "import_edges"
    /\ svg_paths = <<>>
    /\ IF SortedKeys(edge_ids4sort) \subseteq DOMAIN edges_dict_unsorted
       THEN /\ edges_dict' = [k \in SortedKeys(edge_ids4sort) |-> edges_dict_unsorted[k]]
            /\ pc' = "edges_done"
       ELSE /\ edges_dict' = edges_dict
            /\ pc' = "aborted"
    /\ UNCHANGED <<laterVars, nodeVars, svg_paths, edges_dict_unsorted, edge_ids4sort,
                   svgID_to_edgeID_dict, checkVars, rampVars>>

InitBuckets ==
    /\ RunwayIdle
    /\ pc = "import_edges"
    /\ svg_nodes = Idle
    /\ node_iter = Idle
    /\ nodes_dict = Idle
    /\ node_count_intersections = 1
    /\ \E doc \in SeqUpTo({PathElement(b1, b2, 0, <<Line(0)>>, n) :
                              b1 \in BucketBounds, b2 \in BucketBounds, n \in BucketNames},
                          MaxPaths + 1) :
          svg_paths = WithIds(doc)
    /\ edges_dict_unsorted = EmptyDict
    /\ edge_ids4sort = <<>>
    /\ edges_dict = EmptyDict
    /\ svgID_to_edgeID_dict = EmptyDict
    /\ nodes_to_check = Idle
    /\ None_nodes = Idle
    /\ ramp2node_dict = Idle
    /\ ramp_dict = Idle
    /\ ramp_edges_set = Idle
    /\ svgEdges_pushback_dict = EmptyDict
    /\ svgEdges_pull_dict = EmptyDict
    /\ edges_pushback_dict = Idle
    /\ edges_pull_dict = Idle
    /\ ramp_iter = Idle
    /\ stype_iter = Idle
    /\ pb_path_lst = Idle
    /\ pull_path_lst = Idle
    /\ last_node = None
    /\ push_groups = Idle
    /\ pull_groups = Idle
    /\ svgEdges_entries_dict = EmptyDict
    /\ remhold_dict = (0 :> [name |-> "RH1", edge_ids_access |-> {}])
    /\ edge_warnings = {}
    /\ name2node_dict = ("RH1" :> 0)
    /\ kind2node_dict = Idle
    /\ name_iter = <<>>
    /\ nx_graph = Idle

NextBuckets ==
    \/ ImportElement
    \/ SortElements

SpecBuckets == InitBuckets /\ [][NextBuckets]_vars

\* The side tables the claim names.
SideTables == <<svgID_to_edgeID_dict, remhold_dict, svgEdges_pushback_dict,
                svgEdges_pull_dict, svgEdges_entries_dict>>

\* C11: when import_edges meets a path element whose key is already in the
\* registry, as an earlier edge or as the mirror of one, the element is
\* dropped without aborting: the registry, the svg-id index, the access sets
\* of the remote holding points and the push-back, pull and entry buckets
\* stay as they are, and the sorted registry holds the records of the first
\* occurrence.
C11_DuplicateKeyDropped ==
    /\ [][(pc = "import_edges" /\ svg_paths # <<>>
             /\ <<NodeOfBound(Head(svg_paths).bound1, node_count_intersections),
                  NodeOfBound(Head(svg_paths).bound2, node_count_intersections)>>
                   \in DOMAIN edges_dict_unsorted)
           => /\ pc' = "import_edges"
              /\ edges_dict_unsorted' = edges_dict_unsorted
              /\ SideTables' = SideTables]_vars
    /\ [](pc = "edges_done" =>
             /\ \A w \in edge_warnings :
                   /\ w[2] \notin DOMAIN svgID_to_edgeID_dict
                   /\ w[2] \notin UNION {Range(svgEdges_entries_dict[g]) :
                                            g \in DOMAIN svgEdges_entries_dict}
             /\ \A k \in DOMAIN edges_dict :
                   /\ edges_dict[k] = edges_dict_unsorted[k]
                   /\ edges_dict[k].svg_id \in DOMAIN svgID_to_edgeID_dict)

\* import_edges has ended after dropping an element; the first occurrence of
\* its key was a push-back path of G1, whose bucket holds that edge and its
\* mirror only.
C11_Witness ==
    /\ pc = "edges_done"
    /\ edge_warnings # {}
    /\ "G1" \in DOMAIN svgEdges_pushback_dict
    /\ Len(svgEdges_pushback_dict["G1"]["Standard"]) = 2
    /\ \E w \in edge_warnings : w[1] \in Range(svgEdges_pushback_dict["G1"]["Standard"])


\* The edges of the registry with an open (None) start or end.
OpenEdges == {e \in DOMAIN edges_dict : e[1] = None \/ e[2] = None}

\* C12: an edge with an open start or end never aborts construction: on a
\* registry that holds such an edge enhance_imports, which runs after
\* check_imports has flagged the edge, does not abort.
C12_OpenEndpointNeverAborts ==
    OpenEdges # {} => pc # "aborted"

\* What the code does: a registry with an open edge always aborts in
\* enhance_imports, and only such a registry does.
OpenEndpointAborts ==
    /\ pc = "enhance_done" => OpenEdges = {}
    /\ pc = "aborted" => OpenEdges # {}


(***************************************************************************)
(* The naming passes of import_nodes (Layout.py 148-305): the circles of   *)
(* ParkingPositionElement, then the groups Runways, Parkings, Transfers,   *)
(* Deicing and Taxibot of HoldingPoints.  The elements carry no 'type'     *)
(* attribute and name intersection nodes of a registry of NamedNodes       *)
(* intersections.                                                          *)
(***************************************************************************)
MaxNamed == 2

NamedNodes == 2

\* Lines 165-203 by the id of a parking circle: the node_type it gives and
\* the node_name it derives from the id.
ParkingPass(id) ==
    CASE id = "remhold_A_TUD"      -> [node_type |-> "RemoteHolding", node_name |-> "A"]
      [] id = "TET_base_TUD"       -> [node_type |-> "TET_base", node_name |-> "TET_base"]
      [] id = "TET_decouple_A_TUD" -> [node_type |-> "Decoupling_Point", node_name |-> "A_dcp"]
      [] id = "TET_allclear_A_TUD" -> [node_type |-> "AllClear_Point", node_name |-> "A_acp"]
      [] OTHER                     -> [node_type |-> "Ramp", node_name |-> id]

\* The loops of lines 225-305 by the group they read: the node_type they give
\* and the index they fill beside name2node_dict.
HoldingPointPass(group) ==
    CASE group = "Runways"   -> [node_type |-> "Stopbar", index |-> "rwy2node_dict"]
      [] group = "Parkings"  -> [node_type |-> "RemoteHolding", index |-> "remhold2node_dict"]
      [] group = "Transfers" -> [node_type |-> "Transfer", index |-> "transfer2node_dict"]
      [] group = "Deicing"   -> [node_type |-> "Deicing", index |-> "deicing2node_dict"]
      [] group = "Taxibot"   -> [node_type |-> "Tugs", index |-> "tugPoints2node_dict"]

HoldingGroups == <<"Runways", "Parkings", "Transfers", "Deicing", "Taxibot">>

\* nodes_dict[node_id]['node_type'] = ...; nodes_dict[node_id]['node_name'] = ...
Renamed(nodes, node_id, type, name) ==
    [nodes EXCEPT ![node_id].node_type = type, ![node_id].node_name = name]

\* One circle of ParkingPositionElement: lines 158-220.
NameParking ==
    /\ pc = "names"
    /\ name_iter # <<>>
    /\ Head(name_iter).group = "ParkingPositionElement"
    /\ LET child == Head(name_iter)
           node_id == NodeOfBound(child.node, node_count_intersections)
           pass == ParkingPass(child.id)
           raises == \/ pass.node_type = "Ramp" /\ SvgNameHas(child.id, "TUD")
                     \/ /\ pass.node_type = "Ramp"
                        /\ child.id = "BUFFER"
                        /\ "BUFFER" \in DOMAIN ramp2node_dict
       IN  IF raises
           THEN /\ pc' = "aborted"
                /\ UNCHANGED <<nodes_dict, name2node_dict, kind2node_dict, remhold_dict,
                               ramp2node_dict, ramp_dict>>
           ELSE /\ pc' = pc
                /\ nodes_dict' = Renamed(nodes_dict, node_id, pass.node_type, pass.node_name)
                /\ name2node_dict' = (pass.node_name :> node_id) @@ name2node_dict
                /\ kind2node_dict' =
                      IF pass.node_type = "RemoteHolding"
                      THEN [kind2node_dict EXCEPT !["remhold2node_dict"] =
                                                     (pass.node_name :> node_id) @@ @]
                      ELSE kind2node_dict
                /\ remhold_dict' =
                      IF pass.node_type = "RemoteHolding"
                      THEN (node_id :> [name |-> pass.node_name, edge_ids_access |-> {}])
                              @@ remhold_dict
                      ELSE remhold_dict
                /\ ramp2node_dict' =
                      IF pass.node_type = "Ramp"
                      THEN (child.id :> node_id) @@ ramp2node_dict
                      ELSE ramp2node_dict
                /\ ramp_dict' =
                      IF pass.node_type = "Ramp"
                      THEN (node_id :> NewRamp(child.id)) @@ ramp_dict
                      ELSE ramp_dict
    /\ name_iter' = Tail(name_iter)
    /\ UNCHANGED <<svg_nodes, node_iter, node_count_intersections, edgeVars, checkVars,
                   ramp_edges_set, pushVars, rwyVars, svgEdges_entries_dict, edge_warnings,
                   nx_graph>>

\* One element of a group of HoldingPoints: lines 228-238, 243-250, 255-263,
\* 268-280 and 285-305.
NameHoldingPoint ==
    /\ pc = "names"
    /\ name_iter # <<>>
    /\ Head(name_iter).group \in Range(HoldingGroups)
    /\ LET child == Head(name_iter)
           hp_name == child.id
           node_id == NodeOfBound(child.node, node_count_intersections)
           pass == HoldingPointPass(child.group)
       IN  /\ nodes_dict' = Renamed(nodes_dict, node_id, pass.node_type, hp_name)
           /\ kind2node_dict' = [kind2node_dict EXCEPT ![pass.index] = (hp_name :> node_id) @@ @]
           /\ name2node_dict' = (hp_name :> node_id) @@ name2node_dict
    /\ name_iter' = Tail(name_iter)
    /\ UNCHANGED <<pc, svg_nodes, node_iter, node_count_intersections, edgeVars, checkVars,
                   rampVars, pushVars, rwyVars, svgEdges_entries_dict, remhold_dict,
                   edge_warnings, nx_graph>>

\* The last naming loop is over (line 306).
FinishNames ==
    /\ pc = "names"
    /\ name_iter = <<>>
    /\ pc' = "names_done"
    /\ UNCHANGED <<nodeVars, edgeVars, checkVars, rampVars, laterVars>>

ParkingIds == {"A", "BUFFER", "remhold_A_TUD", "TET_decouple_A_TUD", "A_TUD"}

HoldingIds == {"A", "B"}

NamedBounds == {<<"intersection_node", k>> : k \in 0..(NamedNodes - 1)}

NamedElements(group) ==
    {[group |-> group, id |-> id, node |-> b] :
        id \in (IF group = "ParkingPositionElement" THEN ParkingIds ELSE HoldingIds),
        b \in NamedBounds}

PassOrder(group) ==
    IF group = "ParkingPositionElement" THEN 0
    ELSE CHOOSE i \in 1..Len(HoldingGroups) : HoldingGroups[i] = group

\* The documents: at most MaxNamed named elements, read group by group.
NamedDocuments ==
    {doc \in SeqUpTo(UNION {NamedElements(g) :
                               g \in {"ParkingPositionElement"} \cup Range(HoldingGroups)},
                     MaxNamed + 1) :
        \A i \in 1..(Len(doc) - 1) : PassOrder(doc[i].group) <= PassOrder(doc[i + 1].group)}

InitNames ==
    /\ PushIdle
    /\ RunwayIdle
    /\ pc = "names"
    /\ svg_nodes = {NodeElement("intersection_node", k) : k \in 0..(NamedNodes - 1)}
    /\ node_iter = {}
    /\ nodes_dict = [k \in 0..(NamedNodes - 1) |->
                        NewNode(NodeElement("intersection_node", k), "TWY_intersection")]
    /\ node_count_intersections = NamedNodes
    /\ svg_paths = Idle
    /\ edges_dict_unsorted = Idle
    /\ edge_ids4sort = Idle
    /\ edges_dict = Idle
    /\ svgID_to_edgeID_dict = Idle
    /\ nodes_to_check = Idle
    /\ None_nodes = Idle
    /\ ramp2node_dict = EmptyDict
    /\ ramp_dict = EmptyDict
    /\ ramp_edges_set = Idle
    /\ svgEdges_entries_dict = Idle
    /\ remhold_dict = EmptyDict
    /\ edge_warnings = {}
    /\ name2node_dict = EmptyDict
    /\ kind2node_dict = [d \in {"rwy2node_dict", "remhold2node_dict", "transfer2node_dict",
                                "deicing2node_dict", "tugPoints2node_dict"} |-> EmptyDict]
    /\ name_iter \in NamedDocuments
    /\ nx_graph = Idle

NextNames ==
    \/ NameParking
    \/ NameHoldingPoint
    \/ FinishNames

SpecNames == InitNames /\ [][NextNames]_vars

\* The nodes that carry a name.
NamedNodeIds == {n \in DOMAIN nodes_dict : nodes_dict[n].node_name # "None"}

\* C13: name collisions are caught during import_nodes: a later node never
\* silently replaces an earlier one in the name-to-id index, so when the
\* naming passes have ended without aborting no two nodes carry the same
\* name and the index maps the name of every named node to that node.
C13_NameCollisionsCaught ==
    pc = "names_done" =>
        \A n \in NamedNodeIds :
            /\ nodes_dict[n].node_name \in DOMAIN name2node_dict
            /\ name2node_dict[nodes_dict[n].node_name] = n

\* What the code does give: the index maps every name to the node that was
\* given it last, and that node still carries a name.
LastNamedWins ==
    pc = "names_done" =>
        \A name \in DOMAIN name2node_dict : name2node_dict[name] \in NamedNodeIds


\* The node ids of a stopbar record of direction d of strip s, none while the
\* record is not written.
RecordedStopbars(s, d, field) ==
    IF field \in DOMAIN runways_dict[s][d] THEN runways_dict[s][d][field].node_ids ELSE {}

\* The stopbars of strip s that are exit or entry stopbars of either direction.
RecordedExitEntry(s) ==
    UNION {RecordedStopbars(s, runways_dict[s].rwy_dirs[i], "stopbars_exits")
              \cup RecordedStopbars(s, runways_dict[s].rwy_dirs[i], "stopbars_entries") :
           i \in 1..2}

\* The stopbars the crossing, ahead and behind searches of the strip have reached.
SearchedStopbars == UNION {node_ids[k] : k \in DOMAIN node_ids}

\* The configured stopbars of strip s that are in no category.
Unclassified(s) == runways_dict[s].stopbars \ (RecordedExitEntry(s) \cup SearchedStopbars)

\* On completion every configured stopbar of every strip is in a category.
AllClassifiedOnCompletion ==
    RunwayCompleted =>
        \A s \in DOMAIN runways_dict :
            runways_dict[s].stopbars \subseteq UNION Range(StopbarCategories(s))

\* C14 as stated: create_runway_data aborts if and only if a configured
\* stopbar of some strip is in none of the categories exit/entry, crossing,
\* ahead, behind; when it does not abort every configured stopbar is in at
\* least one of them.
C14_AbortsIffUnclassified ==
    /\ pc = "aborted" => \E s \in DOMAIN runways_dict : Unclassified(s) # {}
    /\ AllClassifiedOnCompletion

\* C14, amended: the assertion that closes a strip fails if and only if a
\* configured stopbar of the strip is in none of the categories; when
\* create_runway_data completes every configured stopbar is in at least one
\* of them.  (The aborts before that assertion do not depend on the stopbars.)
C14_StopbarAssertion ==
    /\ [][pc = "strip_end" => (pc' = "aborted" <=> Unclassified(CurrentStrip) # {})]_vars
    /\ []AllClassifiedOnCompletion

\* The closing assertion has failed on a strip one of whose directions has
\* an exit stopbar.
C14_Witness ==
    /\ pc = "aborted"
    /\ stopbars_remaining # {}
    /\ RecordedExitEntry("09/27") # {}


\* The edges of the registry that leave the threshold node of direction d of
\* the strip at hand.
ThresholdEdges(d) == {e \in DOMAIN edges_dict : e[1] = CurrentVals[d].node_start}

\* The walk of the direction at hand is about to begin.
AtThreshold == pc = "dir" /\ dir_idx <= Len(CurrentVals.rwy_dirs)

\* Every direction aborts unless exactly one edge leaves its threshold node.
AbortsUnlessOneThresholdEdge ==
    [][AtThreshold => (pc' = "aborted" <=> Cardinality(ThresholdEdges(CurrentDir)) # 1)]_vars

\* C15 as stated: for every runway direction create_runway_data aborts
\* unless exactly one edge leaves the direction's threshold node, and when
\* it aborts no runway sequence, exit or entry is recorded for that direction.
C15_ThresholdAbortRecordsNothing ==
    /\ AbortsUnlessOneThresholdEdge
    /\ [][AtThreshold /\ pc' = "aborted" =>
             {"nodes", "edges", "exits", "entries"}
                \cap DOMAIN runways_dict'[CurrentStrip][CurrentDir] = {}]_vars

\* C15, amended: for every runway direction create_runway_data aborts unless
\* exactly one edge leaves the direction's threshold node, and when it
\* aborts no runway sequence and no exit is recorded for that direction; no
\* entry is recorded for the first direction of a strip, while the second
\* already holds as entries the mirrored exits of the first.
C15_ThresholdAbort ==
    /\ AbortsUnlessOneThresholdEdge
    /\ [][AtThreshold /\ pc' = "aborted" =>
             LET vals == runways_dict'[CurrentStrip]
             IN  /\ {"nodes", "edges", "exits"} \cap DOMAIN vals[CurrentDir] = {}
                 /\ dir_idx = 1 => "entries" \notin DOMAIN vals[CurrentDir]
                 /\ dir_idx = 2 =>
                       /\ "entries" \in DOMAIN vals[CurrentDir]
                       /\ DOMAIN vals[CurrentDir].entries =
                             {ReverseEdge(e) : e \in DOMAIN vals[vals.rwy_dirs[1]].exits}]_vars

\* The second direction of the strip has aborted at its threshold, left by two
\* edges, after the first direction recorded an exit.
C15_Witness ==
    /\ pc = "aborted"
    /\ dir_idx = 2
    /\ Cardinality(ThresholdEdges("27")) = 2
    /\ "exits" \in DOMAIN runways_dict["09/27"]["09"]
    /\ DOMAIN runways_dict["09/27"]["09"].exits # {}
    /\ "nodes" \notin DOMAIN runways_dict["09/27"]["27"]


\* The exits of direction d of strip s are the entries of direction e, key by
\* reversed key.
ExitsMirrored(s, d, e) ==
    LET exits == runways_dict[s][d].exits
        entries == runways_dict[s][e].entries
    IN  /\ DOMAIN entries = {ReverseEdge(k) : k \in DOMAIN exits}
        /\ \A k \in DOMAIN exits :
              /\ entries[ReverseEdge(k)].rwy_length = exits[k].rwy_length
              /\ entries[ReverseEdge(k)].stopbar_nodeIDs = exits[k].stopbar_nodeIDs
              /\ entries[ReverseEdge(k)].stopbar_names = exits[k].stopbar_names

\* C16: for every runway strip with directions d and d', once the exits of d
\* are recorded, each exit of d under the key (a,b) is an entry of d' under
\* the key (b,a) with the same cumulative distance and the same stopbar node
\* ids and names, and d' has no other entries.
C16_ExitsAreOppositeEntries ==
    \A s \in DOMAIN runways_dict :
        \A i \in 1..2 :
            LET d == runways_dict[s].rwy_dirs[i]
                e == runways_dict[s].rwy_dirs[3 - i]
            IN  "exits" \in DOMAIN runways_dict[s][d] =>
                    /\ "entries" \in DOMAIN runways_dict[s][e]
                    /\ ExitsMirrored(s, d, e)

\* create_runway_data has completed; the first direction of the strip has
\* two exits, with different stopbars, and the second has an exit too.
C16_Witness ==
    /\ RunwayCompleted
    /\ \E k, m \in DOMAIN runways_dict["09/27"]["09"].exits :
          runways_dict["09/27"]["09"].exits[k].stopbar_names
             # runways_dict["09/27"]["09"].exits[m].stopbar_names
    /\ DOMAIN runways_dict["09/27"]["27"].exits # {}


\* The edges a search explores from the edges in found: the continuations of
\* every edge that does not end at a Stopbar, and so on.
RECURSIVE Explored(_)
Explored(found) ==
    LET more == UNION {edges_dict[e].next_edges :
                          e \in {f \in found : nodes_dict[f[2]].node_type # "Stopbar"}}
    IN  IF more \subseteq found THEN found ELSE Explored(found \cup more)

\* The stopbars reached from the seed edges in seeds.
ReachedFrom(seeds) ==
    {e[2] : e \in {f \in Explored(UNION {edges_dict[k].next_edges : k \in seeds}) :
                      nodes_dict[f[2]].node_type = "Stopbar"}}

\* The stopbars reached from the 'ahead' seed edges keyed by direction d.
ReachedAhead(d) ==
    IF d \in DOMAIN edges_special_RWY.ahead
    THEN ReachedFrom(edges_special_RWY.ahead[d])
    ELSE {}

\* C17: for every runway strip with directions d1 and d2 for which
\* create_runway_data completes, the stopbars reached from the 'ahead' seed
\* edges keyed by d1 are the stopbars_ahead of d1 and the stopbars_behind of
\* d2, those reached from the seeds keyed by d2 are the stopbars_ahead of d2
\* and the stopbars_behind of d1, and both directions carry the same
\* stopbars_crossings.
C17_AheadIsOppositeBehind ==
    RunwayCompleted =>
        \A s \in DOMAIN runways_dict :
            LET vals == runways_dict[s]
                d1 == vals.rwy_dirs[1]
                d2 == vals.rwy_dirs[2]
            IN  /\ vals[d1].stopbars_ahead.node_ids = ReachedAhead(d1)
                /\ vals[d2].stopbars_ahead.node_ids = ReachedAhead(d2)
                /\ vals[d2].stopbars_behind = vals[d1].stopbars_ahead
                /\ vals[d1].stopbars_behind = vals[d2].stopbars_ahead
                /\ vals[d1].stopbars_crossings = vals[d2].stopbars_crossings

\* create_runway_data has completed on a strip with go-around stopbars ahead
\* of each direction, not the same ones.
C17_Witness ==
    /\ RunwayCompleted
    /\ runways_dict["09/27"]["09"].stopbars_ahead.node_ids # {}
    /\ runways_dict["09/27"]["27"].stopbars_ahead.node_ids # {}
    /\ runways_dict["09/27"]["09"].stopbars_ahead.node_ids
          # runways_dict["09/27"]["27"].stopbars_ahead.node_ids


\* The categories whose buckets no document of InitPush fills: they have no
\* dedicated push or pull fragments.
UnfilledTypes == STypeSet \ {"Standard", "ICAO-D"}

\* The 'pushback' dict of the gate in the ramp registry.
GatePushback == ramp_dict[ramp2node_dict["G1"]].pushback

\* The groups of the gate that sType belongs to.
GroupsWith(sType) == {g \in DOMAIN GatePushback : sType \in Range(g)}

\* C18: for every category with no dedicated push fragments, the push chain
\* the ramp registry records for the category, through the group it belongs
\* to, is the Standard push chain; and the pull chain of a category that took
\* over the Standard push chain starts at the end node of that chain.
C18_InheritsStandardPush ==
    /\ pc = "pushpull_done" =>
          \A sType \in UnfilledTypes : \A g \in GroupsWith(sType) :
              /\ "Standard" \in DOMAIN edges_pushback_dict["G1"]
              /\ GatePushback[g].edges_push = edges_pushback_dict["G1"]["Standard"]
    /\ (pc = "pull_chain" /\ pull_path_lst = <<>>
          /\ edges_pushback_dict["G1"][CurrentType] = edges_pushback_dict["G1"]["Standard"])
       => last_node = LastNode(edges_pushback_dict["G1"]["Standard"])

\* What the code does give: a category without fragments is recorded with
\* the chain of the last category before it that has a chain, Standard when
\* there is none.
InheritsPrecedingPush ==
    pc = "pushpull_done" =>
        \A sType \in UnfilledTypes : \A g \in GroupsWith(sType) :
            GatePushback[g].edges_push =
                IF sType \in {"ICAO-E", "ICAO-F"} /\ "ICAO-D" \in DOMAIN edges_pushback_dict["G1"]
                THEN edges_pushback_dict["G1"]["ICAO-D"]
                ELSE edges_pushback_dict["G1"]["Standard"]


\* The categories that the grouping of lines 1146-1164 puts into groups.
GroupedTypes == STypeSet \ {"Standard"}

\* The push chain the ramp registry records for the groups of sType.
RecordedPush(sType) == {GatePushback[g].edges_push : g \in GroupsWith(sType)}

\* C19: after create_pushpull_data two categories of a ramp belong to the
\* same pushback group if and only if their chains are identical, and each
\* group has one representative chain; so a category that inherited the
\* Standard push chain is in the group of the categories that use the
\* Standard chain.
C19_GroupsAreEqualChains ==
    pc = "pushpull_done" /\ DOMAIN GatePushback # {} =>
        /\ \A sType \in GroupedTypes : Cardinality(GroupsWith(sType)) = 1
        /\ \A s1, s2 \in GroupedTypes :
              GroupsWith(s1) = GroupsWith(s2) <=> RecordedPush(s1) = RecordedPush(s2)

\* What the code does give: every category but Standard is in one group, and
\* the categories of a group share its chain; two groups may record the same
\* chain.
GroupsShareChain ==
    pc = "pushpull_done" /\ DOMAIN GatePushback # {} =>
        /\ \A sType \in GroupedTypes : Cardinality(GroupsWith(sType)) = 1
        /\ \A s1, s2 \in GroupedTypes :
              GroupsWith(s1) = GroupsWith(s2) => RecordedPush(s1) = RecordedPush(s2)


\* The categories of group g of the gate: its members and the category whose
\* push chain represents it.
CategoriesOf(g) == Range(g) \cup {push_groups["G1"][g]}

\* A non-empty pull chain was assembled for a category of group g.
PullAssembledFor(g) ==
    /\ "G1" \in DOMAIN edges_pull_dict
    /\ \E sType \in CategoriesOf(g) :
          /\ sType \in DOMAIN edges_pull_dict["G1"]
          /\ edges_pull_dict["G1"][sType] # <<>>

\* C20: after create_pushpull_data a pushback group of a ramp is tagged
\* 'push-pull', and carries edges_pull, if and only if a non-empty pull chain
\* was assembled for the categories of the group, and is tagged 'pushback'
\* otherwise, also when the push grouping and the pull grouping differ.
C20_PushPullIffPullChain ==
    pc = "pushpull_done" =>
        \A g \in DOMAIN GatePushback :
            /\ GatePushback[g].pb_type = (IF PullAssembledFor(g) THEN "push-pull" ELSE "pushback")
            /\ "edges_pull" \in DOMAIN GatePushback[g] <=> PullAssembledFor(g)

\* What the code does give: a group is tagged 'push-pull' only when a pull
\* chain was assembled for it, and carries edges_pull exactly then.
PushPullOnlyWithPullChain ==
    pc = "pushpull_done" =>
        \A g \in DOMAIN GatePushback :
            /\ GatePushback[g].pb_type \in {"push-pull", "pushback"}
            /\ GatePushback[g].pb_type = "push-pull" => PullAssembledFor(g)
            /\ "edges_pull" \in DOMAIN GatePushback[g] <=> GatePushback[g].pb_type = "push-pull"


\* The registry keys that leave node n.
Leaving(n) == {e \in DOMAIN edges_dict : e[1] = n}

\* The service-road pass of enhance_imports is over.
ServiceRoadsDone == pc \in {"next_edges", "dir_switch", "enhance_done"}

\* C21: enhance_imports makes a node SR_intersection exactly when
\* import_nodes left it TWY_intersection and every edge leaving it is a
\* ServiceRoad or CenterServiceRoad, a node that no edge leaves included;
\* every other node keeps its subtype.
C21_ServiceRoadIntersections ==
    ServiceRoadsDone =>
        \A n \in DOMAIN nodes_dict :
            nodes_dict[n].node_type =
                IF /\ EnhNodes[n].node_type = "TWY_intersection"
                   /\ \A e \in Leaving(n) :
                         edges_dict[e].edge_type \in {"ServiceRoad", "CenterServiceRoad"}
                THEN "SR_intersection"
                ELSE EnhNodes[n].node_type

\* After the pass node 1 is a service-road intersection that edges leave,
\* node 2 one that no edge leaves, and the ramp node is still a Ramp although
\* only service roads leave it.
C21_Witness ==
    /\ ServiceRoadsDone
    /\ nodes_dict[1].node_type = "SR_intersection" /\ Leaving(1) # {}
    /\ nodes_dict[2].node_type = "SR_intersection" /\ Leaving(2) = {}
    /\ nodes_dict[0].node_type = "Ramp" /\ Leaving(0) # {}
    /\ \A e \in Leaving(0) : edges_dict[e].edge_type = "ServiceRoad"

\* After the pass node 2 is a service-road intersection left by a ServiceRoad
\* and by a CenterServiceRoad.
CentreServiceRoadReached ==
    /\ ServiceRoadsDone
    /\ nodes_dict[2].node_type = "SR_intersection"
    /\ {edges_dict[e].edge_type : e \in Leaving(2)} = {"ServiceRoad", "CenterServiceRoad"}


\* The adjacency step of enhance_imports is over.
AdjacencyDone == pc \in {"ramp_edges", "service_roads", "next_edges", "dir_switch",
                         "enhance_done"}

\* The outgoing and incoming edge sets are those of the registry.
EdgeSetsFromRegistry ==
    \A n \in DOMAIN nodes_dict :
        /\ nodes_dict[n].edges_from_node = Leaving(n)
        /\ nodes_dict[n].edges_to_node = {e \in DOMAIN edges_dict : e[2] = n}

\* C22: after the adjacency step of enhance_imports edges_from_node(n) is
\* the set of registry keys that start at n, edges_to_node(n) the set of
\* those that end at n, and neighbors(n) the set of end nodes of the edges
\* leaving n; an edge with an open end is entered on the side of its
\* resolved node only and adds no neighbour to any node.
C22_AdjacencyFromRegistry ==
    AdjacencyDone =>
        /\ EdgeSetsFromRegistry
        /\ \A n \in DOMAIN nodes_dict :
              nodes_dict[n].neighbors = {e[2] : e \in Leaving(n)} \ {None}

\* What the code does give: the edge sets are as claimed, and the open end of
\* an edge leaving n is entered in neighbors(n) as None.
AdjacencyWithOpenEnds ==
    AdjacencyDone =>
        /\ EdgeSetsFromRegistry
        /\ \A n \in DOMAIN nodes_dict : nodes_dict[n].neighbors = {e[2] : e \in Leaving(n)}


\* ---------------------------------------------------------------------------
\* __init__ (lines 96-108): the phases of the constructor one after another.
\* A phase is one step here; its own steps are those of the specifications
\* above.  An exception raised in a phase leaves __init__, so that no Layout
\* object, and none of its attributes, reaches the caller.
\* ---------------------------------------------------------------------------

\* Bound on the number of nodes of a document given to the constructor.
MaxGraphNodes == 3

\* Variant of Phases: the graph is built before the push and pull chains.
PhasesGraphFirst ==
    <<"import_nodes", "import_edges", "check_imports", "enhance_imports",
      "create_runway_data", "create_nx_graph", "create_pushpull_data">>

\* The calls of lines 97-102 and 108 in their order.
Phases ==
    <<"import_nodes", "import_edges", "check_imports", "enhance_imports",
      "create_runway_data", "create_pushpull_data", "create_nx_graph">>

PhaseIndex(p) == CHOOSE i \in 1..Len(Phases) : Phases[i] = p

\* The position after phase p has returned.
AfterPhase(p) ==
    IF PhaseIndex(p) < Len(Phases) THEN Phases[PhaseIndex(p) + 1] ELSE "constructed"

\* The node registries and, for a node registry, the edge registries that the
\* imports can give: every path is registered in both directions, and a path
\* may have an open end.
GraphNodeChoices == {0..(k - 1) : k \in 1..MaxGraphNodes}
GraphPairChoices(ids) == SUBSET {p \in SUBSET (ids \cup {None}) : Cardinality(p) = 2}
GraphEdgeKeys(ids, pairs) ==
    {e \in (ids \cup {None}) \X (ids \cup {None}) : {e[1], e[2]} \in pairs}

\* create_nx_graph (lines 1194-1200): a DiGraph of the nodes and the edges of
\* the registries; add_edges_from adds the endpoints of an edge as nodes, and
\* removing the node None removes the edges at it.
create_nx_graph(nodes, edges) ==
    LET added == DOMAIN nodes \cup {e[1] : e \in DOMAIN edges} \cup {e[2] : e \in DOMAIN edges}
    IN  [nodes |-> added \ {None},
         edges |-> {e \in DOMAIN edges : e[1] # None /\ e[2] # None}]

initFrame == <<svg_nodes, node_iter, node_count_intersections, svg_paths, edges_dict_unsorted,
               edge_ids4sort, svgID_to_edgeID_dict, checkVars, rampVars, pushVars, rwyVars,
               svgEdges_entries_dict, remhold_dict, edge_warnings, name2node_dict,
               kind2node_dict, name_iter>>

\* The running phase returns and __init__ goes on to its next call.
PhaseReturns ==
    /\ pc \in Range(Phases)
    /\ pc' = AfterPhase(pc)
    /\ IF pc = "import_nodes"
       THEN /\ \E ids \in GraphNodeChoices :
                  nodes_dict' = [n \in ids |-> [node_name |-> "None"]]
            /\ UNCHANGED <<edges_dict, nx_graph>>
       ELSE IF pc = "import_edges"
       THEN /\ \E pairs \in GraphPairChoices(DOMAIN nodes_dict) :
                  edges_dict' = [e \in GraphEdgeKeys(DOMAIN nodes_dict, pairs) |->
                                    [edge_type |-> "TWY_edge"]]
            /\ UNCHANGED <<nodes_dict, nx_graph>>
       ELSE IF pc = "create_nx_graph"
       THEN /\ nx_graph' = create_nx_graph(nodes_dict, edges_dict)
            /\ UNCHANGED <<nodes_dict, edges_dict>>
       ELSE UNCHANGED <<nodes_dict, edges_dict, nx_graph>>
    /\ UNCHANGED initFrame

\* The running phase raises: __init__ is left with the exception.
PhaseRaises ==
    /\ pc \in Range(Phases)
    /\ pc' = "aborted"
    /\ UNCHANGED <<nodes_dict, edges_dict, nx_graph, initFrame>>

InitLayout ==
    /\ LaterIdle
    /\ pc = Phases[1]
    /\ svg_nodes = Idle
    /\ node_iter = Idle
    /\ nodes_dict = EmptyDict
    /\ node_count_intersections = Idle
    /\ svg_paths = Idle
    /\ edges_dict_unsorted = Idle
    /\ edge_ids4sort = Idle
    /\ edges_dict = EmptyDict
    /\ svgID_to_edgeID_dict = Idle
    /\ nodes_to_check = Idle
    /\ None_nodes = Idle
    /\ ramp2node_dict = Idle
    /\ ramp_dict = Idle
    /\ ramp_edges_set = Idle

NextLayout ==
    \/ PhaseReturns
    \/ PhaseRaises

SpecLayout == InitLayout /\ [][NextLayout]_vars

\* The order of the phases as the specification gives it.
PhaseSuccessor ==
    [import_nodes |-> "import_edges", import_edges |-> "check_imports",
     check_imports |-> "enhance_imports", enhance_imports |-> "create_runway_data",
     create_runway_data |-> "create_pushpull_data",
     create_pushpull_data |-> "create_nx_graph", create_nx_graph |-> "constructed"]

\* C23: the constructor runs import_nodes, import_edges, check_imports,
\* enhance_imports, create_runway_data, create_pushpull_data and
\* create_nx_graph strictly in this order, each started only when the one
\* before it has returned; once a phase has raised no later phase runs, and
\* no nx_graph is ever exposed.
C23_PhasesInOrder ==
    /\ pc = "import_nodes"
    /\ [][/\ pc \in DOMAIN PhaseSuccessor
          /\ pc' \in {PhaseSuccessor[pc], "aborted"}]_pc
    /\ [](nx_graph # Idle => pc = "constructed")

\* The constructor has returned with the graph of a registry that has an edge
\* with an open end.
C23_Witness ==
    /\ pc = "constructed"
    /\ \E e \in DOMAIN edges_dict : e[2] = None
    /\ nx_graph.edges # {}
    /\ nx_graph.edges # DOMAIN edges_dict

\* A phase after the first has raised.
C23_AbortWitness ==
    /\ pc = "aborted"
    /\ DOMAIN edges_dict # {}
    /\ nx_graph = Idle


\* The directions whose walk has been recorded (line 952).
WalkedDirs(strip) ==
    {d \in Range(runways_dict[strip].rwy_dirs) : "edges" \in DOMAIN runways_dict[strip][d]}

\* nodes and edges describe one connected path that starts at node_start.
IsPathFrom(node_start, nodes, edges) ==
    /\ edges # <<>>
    /\ edges[1][1] = node_start
    /\ \A i \in 1..(Len(edges) - 1) : edges[i][2] = edges[i + 1][1]
    /\ Len(nodes) = Len(edges) + 1
    /\ \A i \in 1..Len(edges) : nodes[i] = edges[i][1] /\ nodes[i + 1] = edges[i][2]

\* C24: the sequences recorded for a runway direction describe one connected
\* path from the threshold: edges[0] starts at the threshold node, every
\* edge ends where the next one starts, and nodes has one element more than
\* edges, nodes[i] and nodes[i+1] being the start and the end of edges[i];
\* this also when more than one continuation of the current edge matches the
\* heading of the direction within 1 degree.
C24_RecordedPathConnected ==
    \A strip \in DOMAIN runways_dict :
        \A d \in WalkedDirs(strip) :
            IsPathFrom(runways_dict[strip][d].node_start,
                       runways_dict[strip][d].nodes, runways_dict[strip][d].edges)

\* The continuations of edge e that match the heading of direction d.
MatchingNext(strip, d, e) ==
    {c \in edges_dict[e].next_edges :
        HeadingMatches(edges_dict[c].seg_headings, runways_dict[strip][d].heading)}

\* What the code does give: the recorded sequences are a connected path when
\* no edge of the walk has more than one matching continuation.
PathConnectedWithoutFork ==
    \A strip \in DOMAIN runways_dict :
        \A d \in WalkedDirs(strip) :
            (\A i \in 1..Len(runways_dict[strip][d].edges) :
                Cardinality(MatchingNext(strip, d, runways_dict[strip][d].edges[i])) <= 1)
            => IsPathFrom(runways_dict[strip][d].node_start,
                          runways_dict[strip][d].nodes, runways_dict[strip][d].edges)

\* A search that repeats no edge stays below the bound on exit_path.
ExitPathBelowBound ==
    Len(exit_path) >= MaxExitPath =>
        \E i, j \in 1..Len(exit_path) : i + 1 < j /\ exit_path[i] = exit_path[j]


\* create_runway_data runs on: every step that can be taken is taken in the
\* end.
LiveSpecRunway == SpecRunway /\ WF_vars(NextRunway)

\* C25: the search for the stopbar of an exit terminates on every finite
\* graph: it reaches a Stopbar node, an edge without a continuation or an
\* edge with more than one continuation, also when the edges with a single
\* continuation form a cycle with no Stopbar node on it.
C25_ExitSearchTerminates == (pc = "exit_search") ~> (pc # "exit_search")

\* What the code does give: the search ends once it meets a Stopbar node, an
\* edge without a continuation or more than one continuation.
ExitSearchEndsAtStop ==
    [][(pc = "exit_search" /\ pc' = "exit_search")
          => /\ Cardinality(temp_edges) = 1
             /\ \A t \in temp_edges : nodes_dict[t[2]].node_type # "Stopbar"]_vars

\* An exit search that is on an edge for the second time.
ExitSearchRepeats ==
    /\ pc = "exit_search"
    /\ \E t \in temp_edges : t \in Range(exit_path)


\* C26: the search from the seed edges of a crossing or of a go-around area
\* terminates on every finite graph, also when the continuations of a seed
\* form a cycle through no Stopbar node.
C26_SeedSearchTerminates == (pc = "seed_edges") ~> (pc # "seed_edges")


IntersectionTypes == {"TWY_intersection", "SR_intersection", "RWY_intersection"}

\* Node n has another subtype or another name after the step.
NodeChanged(n) ==
    \/ nodes_dict'[n].node_type # nodes_dict[n].node_type
    \/ nodes_dict'[n].node_name # nodes_dict[n].node_name

\* C28: enhance_imports and create_runway_data add no node id and remove
\* none; a subtype changes only from TWY_intersection, to SR_intersection or
\* to RWY_intersection; a Stopbar, a Ramp or any other holding or parking
\* node keeps its subtype and its name, also when it lies on the chain of
\* edges that match the heading of a runway direction.
C28_NodesKept ==
    [][/\ DOMAIN nodes_dict' = DOMAIN nodes_dict
       /\ \A n \in DOMAIN nodes_dict :
             /\ nodes_dict'[n].node_type # nodes_dict[n].node_type
                   => /\ nodes_dict[n].node_type = "TWY_intersection"
                      /\ nodes_dict'[n].node_type \in {"SR_intersection", "RWY_intersection"}
             /\ nodes_dict[n].node_type \notin IntersectionTypes => ~NodeChanged(n)]_vars

\* What the code does give: no node id is added or removed, and a node that
\* is not an intersection keeps its subtype and its name unless the walk of
\* a direction has just appended it to rwy_nodes, which makes it a
\* RWY_intersection named after the direction.
NodesKeptOffTheChain ==
    [][/\ DOMAIN nodes_dict' = DOMAIN nodes_dict
       /\ \A n \in DOMAIN nodes_dict :
             (nodes_dict[n].node_type \notin IntersectionTypes /\ NodeChanged(n))
                => /\ pc = "walk_next"
                   /\ rwy_nodes' = Append(rwy_nodes, n)
                   /\ nodes_dict'[n].node_type = "RWY_intersection"
                   /\ nodes_dict'[n].node_name = CurrentDir]_vars


\* The mirror of edge e is registered with the role of e.
SameRoleAsMirror(e) ==
    ReverseEdge(e) \in DOMAIN edges_dict
        => edges_dict[ReverseEdge(e)].edge_type = edges_dict[e].edge_type

\* C29: after the relabelling of the runway edges every edge (u, v) and its
\* mirror (v, u) have the same role, also when the chain walked from one
\* threshold does not cover the segments of the chain walked from the
\* opposite threshold.
C29_MirrorsShareRole ==
    pc = "runway_done" => \A e \in DOMAIN edges_dict : SameRoleAsMirror(e)

\* The edges recorded for the directions of the strips (line 1036).
RecordedRunwayEdges ==
    UNION {runways_dict[strip].rwy_edges : strip \in DOMAIN runways_dict}

\* What the code does give: an edge and its mirror have the same role when
\* both or neither of them were walked.
MirrorsShareRoleWhenBothWalked ==
    pc = "runway_done" =>
        \A e \in DOMAIN edges_dict :
            (e \in RecordedRunwayEdges <=> ReverseEdge(e) \in RecordedRunwayEdges)
                => SameRoleAsMirror(e)


\* Every edge of the chain ends where the next one starts.
IsWalk(chain) == \A i \in 1..(Len(chain) - 1) : chain[i][2] = chain[i + 1][1]

\* The chain holds no edge together with its mirror.
NoMirrorIn(chain) ==
    \A i, j \in 1..Len(chain) : i # j => chain[i] # ReverseEdge(chain[j])

\* The chains of a table of create_pushpull_data, as <<ramp, category, chain>>.
ChainsOf(d) ==
    UNION {{<<r, s, d[r][s]>> : s \in DOMAIN d[r]} : r \in DOMAIN d}

AssembledChains(d) == {c \in ChainsOf(d) : c[3] # <<>>}

\* C27: every assembled push chain is a connected walk that begins with the
\* outgoing stand edge of the ramp, which starts at the ramp node; every
\* assembled pull chain is a connected walk whose first edge starts at the
\* end node of the push chain of the same ramp and category; no chain holds
\* both an edge and its mirror.
C27_ChainsAreWalks ==
    /\ \A c \in AssembledChains(edges_pushback_dict) :
          /\ c[3][1] = StandEdge(c[1])
          /\ c[3][1][1] = ramp2node_dict[c[1]]
          /\ IsWalk(c[3])
          /\ NoMirrorIn(c[3])
    /\ \A c \in AssembledChains(edges_pull_dict) :
          /\ c[2] \in DOMAIN edges_pushback_dict[c[1]]
          /\ edges_pushback_dict[c[1]][c[2]] # <<>>
          /\ c[3][1][1] = LastNode(edges_pushback_dict[c[1]][c[2]])
          /\ IsWalk(c[3])
          /\ NoMirrorIn(c[3])

\* A push chain of three edges and a pull chain of two edges behind it are
\* stored for the gate.
C27_Witness ==
    /\ pc = "groups"
    /\ "G1" \in DOMAIN edges_pushback_dict
    /\ Len(edges_pushback_dict["G1"]["Standard"]) = 3
    /\ "G1" \in DOMAIN edges_pull_dict
    /\ Len(edges_pull_dict["G1"]["Standard"]) = 2


\* Every ramp has exactly one outgoing stand edge.
OneStandEdge ==
    \A n \in DOMAIN ramp_dict : Cardinality(ramp_dict[n].edges_from_ramp) = 1

\* C30: create_pushpull_data completes without an error for every combination
\* of fragment pools of a ramp that has exactly one outgoing stand edge, and
\* every pushback group it stores refers to a category with an assembled push
\* chain that is not empty; this for a ramp with push fragments for ICAO-D
\* only as well, and for a ramp with pull fragments for a category that has
\* no push fragments, and Standard none either.
C30_CompletesForOneStandEdge ==
    OneStandEdge =>
        /\ pc # "aborted"
        /\ pc \in {"fill", "cleanup", "pushpull_done"} =>
              \A r \in DOMAIN push_groups : \A g \in DOMAIN push_groups[r] :
                  /\ HasPushChain(r, g)
                  /\ edges_pushback_dict[r][push_groups[r][g]] # <<>>

\* What the code does give: with one outgoing stand edge the method raises
\* only at line 1098 or 1100, for a category with pull fragments and no push
\* chain for it or for Standard, and at line 1172, for a group whose category
\* has no push chain.
RaisesOnlyWithoutPushChain ==
    [][(OneStandEdge /\ pc' = "aborted") =>
          \/ /\ pc = "pull_types"
             /\ \/ CurrentRamp \notin DOMAIN edges_pushback_dict
                \/ /\ edges_pushback_dict[CurrentRamp][CurrentType] = <<>>
                   /\ edges_pushback_dict[CurrentRamp]["Standard"] = <<>>
          \/ pc = "fill" /\ FillRaises]_vars

===========================================================================
